---- MODULE Spec2Model ----
(***************************************************************************)
(* Model of Examples/GameDemo/scripts/server-loadtest/parse_monitoring.py: *)
(* the five monitoring-log parsers (linux vmstat, macOS top, macOS iostat, *)
(* macOS ps CSV, pidstat), the format sniffing in front of them and the    *)
(* slot and summary steps of main that call them and consume their samples. *)
(*                                                                         *)
(* A file is a sequence of lines (without the line terminator).  Lines are *)
(* TLA+ strings; the Python string operations the parsers use (strip,      *)
(* split, in, startswith, lower, isdigit, replace, int, float, the two     *)
(* regular expressions of the top parser) are modelled character by        *)
(* character.  A float is a record [k, n]: k = "fin" with n the value in   *)
(* 1/Scale units, or k = "inf" / "nan".                                    *)
(***************************************************************************)
EXTENDS Integers, Sequences, FiniteSets, TLC

VARIABLES entry, process_name, exists, lines,
          pc, i, header_found, column_header_found, current_sample,
          samples, col, result, exc, invoked, summary, calls,
          args, main_result

vars == <<entry, process_name, exists, lines, pc, i, header_found,
          column_header_found, current_sample, samples, col, result, exc,
          invoked, summary, calls, args, main_result>>

(* ------------------------------------------------------------------ *)
(* Python string primitives                                            *)
(* ------------------------------------------------------------------ *)

Ch(s, k) == SubSeq(s, k, k)

Whitespace == {" ", "\t"}

Digits == {"0", "1", "2", "3", "4", "5", "6", "7", "8", "9"}

DigitVal == ("0" :> 0) @@ ("1" :> 1) @@ ("2" :> 2) @@ ("3" :> 3) @@ ("4" :> 4)
            @@ ("5" :> 5) @@ ("6" :> 6) @@ ("7" :> 7) @@ ("8" :> 8) @@ ("9" :> 9)

UpperToLower ==
    ("A" :> "a") @@ ("B" :> "b") @@ ("C" :> "c") @@ ("D" :> "d") @@ ("E" :> "e")
    @@ ("F" :> "f") @@ ("G" :> "g") @@ ("H" :> "h") @@ ("I" :> "i") @@ ("J" :> "j")
    @@ ("K" :> "k") @@ ("L" :> "l") @@ ("M" :> "m") @@ ("N" :> "n") @@ ("O" :> "o")
    @@ ("P" :> "p") @@ ("Q" :> "q") @@ ("R" :> "r") @@ ("S" :> "s") @@ ("T" :> "t")
    @@ ("U" :> "u") @@ ("V" :> "v") @@ ("W" :> "w") @@ ("X" :> "x") @@ ("Y" :> "y")
    @@ ("Z" :> "z")

MinOf(S) == CHOOSE m \in S : \A n \in S : m <= n

MaxOf(S) == CHOOSE m \in S : \A n \in S : m >= n

\* the least element of S, or default when S is empty
FirstIn(S, default) == IF S = {} THEN default ELSE MinOf(S)

\* sub in s
Contains(s, sub) ==
    \E k \in 0..(Len(s) - Len(sub)) : SubSeq(s, k + 1, k + Len(sub)) = sub

\* s.startswith(p)
StartsWith(s, p) == Len(s) >= Len(p) /\ SubSeq(s, 1, Len(p)) = p

\* the text p occurs in s at position k
At(s, k, p) == k >= 1 /\ k + Len(p) - 1 <= Len(s) /\ SubSeq(s, k, k + Len(p) - 1) = p

LowerChar(c) == IF c \in DOMAIN UpperToLower THEN UpperToLower[c] ELSE c

\* s.lower()
RECURSIVE Lower(_)
Lower(s) ==
    IF s = "" THEN "" ELSE LowerChar(Ch(s, 1)) \o Lower(SubSeq(s, 2, Len(s)))

\* s between the first and the last of the positions kept
StripTo(s, keep) == IF keep = {} THEN "" ELSE SubSeq(s, MinOf(keep), MaxOf(keep))

\* s.strip()
Strip(s) == StripTo(s, {k \in 1..Len(s) : Ch(s, k) \notin Whitespace})

\* s.split(): the maximal runs of non-whitespace characters, in order
RECURSIVE SplitFrom(_, _)
SplitToken(s, k, e) == <<SubSeq(s, k, e - 1)>> \o SplitFrom(s, e)

SplitFrom(s, k) ==
    IF k > Len(s) THEN <<>>
    ELSE IF Ch(s, k) \in Whitespace THEN SplitFrom(s, k + 1)
    ELSE SplitToken(s, k, FirstIn({m \in k..Len(s) : Ch(s, m) \in Whitespace},
                                  Len(s) + 1))

Split(s) == SplitFrom(s, 1)

\* s.isdigit() (ASCII digits)
IsDigit(s) == s # "" /\ \A k \in 1..Len(s) : Ch(s, k) \in Digits

\* s.replace(a, b) for single characters a, b (b may be empty)
RECURSIVE Replace(_, _, _)
Replace(s, a, b) ==
    IF s = "" THEN ""
    ELSE (IF Ch(s, 1) = a THEN b ELSE Ch(s, 1)) \o Replace(SubSeq(s, 2, Len(s)), a, b)

\* value of a string of digits
RECURSIVE DecimalValue(_)
DecimalValue(s) ==
    IF s = "" THEN 0
    ELSE 10 * DecimalValue(SubSeq(s, 1, Len(s) - 1)) + DigitVal[Ch(s, Len(s))]

(* ------------------------------------------------------------------ *)
(* Python numbers                                                      *)
(* ------------------------------------------------------------------ *)

\* floats are kept in 1/Scale units
Scale == 100

Fin(n) == [k |-> "fin", n |-> n]
Inf == [k |-> "inf", n |-> 1]
NaN == [k |-> "nan", n |-> 0]

Ok(v) == [raised |-> "none", val |-> v]
Raise(e) == [raised |-> e, val |-> 0]

\* the digits of a fraction, as a number of 1/Scale units (two places kept)
FracValue(s) ==
    IF s = "" THEN 0
    ELSE IF Len(s) = 1 THEN 10 * DigitVal[Ch(s, 1)]
    ELSE 10 * DigitVal[Ch(s, 1)] + DigitVal[Ch(s, 2)]

\* the literal ip.fp
DecimalParts(ip, fp) ==
    IF (ip = "" /\ fp = "") \/ ~(ip = "" \/ IsDigit(ip)) \/ ~(fp = "" \/ IsDigit(fp))
    THEN Raise("ValueError")
    ELSE Ok(Fin(Scale * DecimalValue(ip) + FracValue(fp)))

DotsOf(s) == {k \in 1..Len(s) : Ch(s, k) = "."}

\* an unsigned decimal literal: digits, digits.digits, digits. or .digits
UnsignedFloat(s) ==
    IF IsDigit(s) THEN Ok(Fin(Scale * DecimalValue(s)))
    ELSE IF Cardinality(DotsOf(s)) # 1 THEN Raise("ValueError")
    ELSE DecimalParts(SubSeq(s, 1, MinOf(DotsOf(s)) - 1),
                      SubSeq(s, MinOf(DotsOf(s)) + 1, Len(s)))

\* an unsigned literal or one of the spellings of infinity and not-a-number
NamedOrDecimal(body, low) ==
    IF low \in {"inf", "infinity"} THEN Ok(Inf)
    ELSE IF low = "nan" THEN Ok(NaN)
    ELSE UnsignedFloat(body)

Negate(r) ==
    IF r.raised # "none" \/ r.val.k = "nan" THEN r
    ELSE Ok([k |-> r.val.k, n |-> -r.val.n])

SignedFloat(s) ==
    IF StartsWith(s, "-")
    THEN Negate(NamedOrDecimal(SubSeq(s, 2, Len(s)), Lower(SubSeq(s, 2, Len(s)))))
    ELSE IF StartsWith(s, "+")
    THEN NamedOrDecimal(SubSeq(s, 2, Len(s)), Lower(SubSeq(s, 2, Len(s))))
    ELSE NamedOrDecimal(s, Lower(s))

\* float(s): surrounding whitespace and a sign are accepted, and so are the
\* spellings of infinity and not-a-number; anything else is a ValueError
PyFloat(s) == SignedFloat(Strip(s))

\* int(x) of a float x: truncation toward zero; infinity and not-a-number raise
PyIntOfFloat(x) ==
    IF x.k = "inf" THEN Raise("OverflowError")
    ELSE IF x.k = "nan" THEN Raise("ValueError")
    ELSE IF x.n >= 0 THEN Ok(x.n \div Scale) ELSE Ok(-((-x.n) \div Scale))

\* int(s) of a string
PyInt(s) == IF IsDigit(s) THEN Ok(DecimalValue(s)) ELSE Raise("ValueError")

(* ------------------------------------------------------------------ *)
(* The two regular expressions of parse_macos_top_log                  *)
(* ------------------------------------------------------------------ *)

\* first position at or after p that holds no digit
DigitRunEnd(s, p) == FirstIn({m \in p..Len(s) : Ch(s, m) \notin Digits}, Len(s) + 1)

\* first position at or after p that holds no whitespace
SpaceRunEnd(s, p) == FirstIn({m \in p..Len(s) : Ch(s, m) \notin Whitespace}, Len(s) + 1)

NoGroup == [ok |-> FALSE, text |-> "", next |-> 0]

\* %\s+word from position q, after a number that began at p; w is where the
\* whitespace ends
PctTail(s, p, q, w, word) ==
    IF At(s, q, "%") /\ w > q + 1 /\ At(s, w, word)
    THEN [ok |-> TRUE, text |-> SubSeq(s, p, q - 1), next |-> w + Len(word)]
    ELSE NoGroup

\* \.?\d* from position q1, where the digits that began at p end
PctFraction(s, p, q1, word) ==
    IF q1 <= p THEN NoGroup
    ELSE IF At(s, q1, ".")
    THEN PctTail(s, p, DigitRunEnd(s, q1 + 1),
                 SpaceRunEnd(s, DigitRunEnd(s, q1 + 1) + 1), word)
    ELSE PctTail(s, p, q1, SpaceRunEnd(s, q1 + 1), word)

\* (\d+\.?\d*)%\s+word matched at position p: the group and the position
\* after the match
PctGroupAt(s, p, word) == PctFraction(s, p, DigitRunEnd(s, p), word)

IdleStarts(s, from) == {p \in from..Len(s) : PctGroupAt(s, p, "idle").ok}

SysThenIdle(s, g) == g.ok /\ IdleStarts(s, g.next) # {}

SysStarts(s, from) == {p \in from..Len(s) : SysThenIdle(s, PctGroupAt(s, p, "sys"))}

UserThenSys(s, g) == g.ok /\ SysStarts(s, g.next) # {}

UserStarts(s) == {p \in 1..Len(s) : UserThenSys(s, PctGroupAt(s, p, "user"))}

NoCpuMatch == [matched |-> FALSE, g1 |-> "", g2 |-> "", g3 |-> ""]

CpuGroups(m1, m2, m3) ==
    [matched |-> TRUE, g1 |-> m1.text, g2 |-> m2.text, g3 |-> m3.text]

CpuFromSys(s, m1, m2) ==
    CpuGroups(m1, m2, PctGroupAt(s, MinOf(IdleStarts(s, m2.next)), "idle"))

CpuFromUser(s, m1) ==
    CpuFromSys(s, m1, PctGroupAt(s, MinOf(SysStarts(s, m1.next)), "sys"))

CpuFrom(s, starts) ==
    IF starts = {} THEN NoCpuMatch
    ELSE CpuFromUser(s, PctGroupAt(s, MinOf(starts), "user"))

\* re.search(r'(\d+\.?\d*)%\s+user.*?(\d+\.?\d*)%\s+sys.*?(\d+\.?\d*)%\s+idle', s):
\* the leftmost start, and after it the shortest gaps
CpuRegex(s) == CpuFrom(s, UserStarts(s))

\* M\s+free from position q, where the digits that began at p end
MemTail(s, p, q, w) == q > p /\ At(s, q, "M") /\ w > q + 1 /\ At(s, w, "free")

MemAt(s, p) ==
    MemTail(s, p, DigitRunEnd(s, p), SpaceRunEnd(s, DigitRunEnd(s, p) + 1))

MemFrom(s, starts) ==
    IF starts = {} THEN [matched |-> FALSE, g1 |-> ""]
    ELSE [matched |-> TRUE,
          g1 |-> SubSeq(s, MinOf(starts), DigitRunEnd(s, MinOf(starts)) - 1)]

\* re.search(r'(\d+)M\s+free', s)
MemRegex(s) == MemFrom(s, {p \in 1..Len(s) : MemAt(s, p)})

(* ------------------------------------------------------------------ *)
(* Samples                                                             *)
(* ------------------------------------------------------------------ *)

\* int(t) if t.isdigit() else 0
IntField(t) == IF IsDigit(t) THEN PyInt(t) ELSE Ok(0)

\* the decimal point not tolerated
PctFieldDigitsOnly(t) == IF IsDigit(t) THEN PyFloat(t) ELSE Ok(Fin(0))

\* float(t) if t.replace('.', '').isdigit() else 0.0
PctField(t) == IF IsDigit(Replace(t, ".", "")) THEN PyFloat(t) ELSE Ok(Fin(0))

\* the first exception raised by a sequence of evaluations, "none" if none
FirstRaised(rs) ==
    rs[FirstIn({k \in DOMAIN rs : rs[k].raised # "none"}, Len(rs))].raised

\* the 17 or 18 values of the dict of parse_vmstat_log, each with the
\* exception its evaluation raises
VmstatFields(parts) ==
    [k \in 1..(IF Len(parts) > 17 THEN 18 ELSE 17) |->
        IF k <= 12 THEN IntField(parts[k]) ELSE PctField(parts[k])]

\* columns free and buff exchanged
VmstatDictSwapped(f) ==
    [procs_r |-> f[1].val, procs_b |-> f[2].val,
     memory_swpd_kb |-> f[3].val, memory_free_kb |-> f[5].val,
     memory_buff_kb |-> f[4].val, memory_cache_kb |-> f[6].val,
     swap_si_kb |-> f[7].val, swap_so_kb |-> f[8].val,
     io_bi_kb |-> f[9].val, io_bo_kb |-> f[10].val,
     system_in |-> f[11].val, system_cs |-> f[12].val,
     cpu_us_pct |-> f[13].val, cpu_sy_pct |-> f[14].val,
     cpu_id_pct |-> f[15].val, cpu_wa_pct |-> f[16].val,
     cpu_st_pct |-> f[17].val]

VmstatDict(f) ==
    [procs_r |-> f[1].val, procs_b |-> f[2].val,
     memory_swpd_kb |-> f[3].val, memory_free_kb |-> f[4].val,
     memory_buff_kb |-> f[5].val, memory_cache_kb |-> f[6].val,
     swap_si_kb |-> f[7].val, swap_so_kb |-> f[8].val,
     io_bi_kb |-> f[9].val, io_bo_kb |-> f[10].val,
     system_in |-> f[11].val, system_cs |-> f[12].val,
     cpu_us_pct |-> f[13].val, cpu_sy_pct |-> f[14].val,
     cpu_id_pct |-> f[15].val, cpu_wa_pct |-> f[16].val,
     cpu_st_pct |-> f[17].val]

VmstatFrom(f) ==
    IF FirstRaised(f) # "none" THEN Raise(FirstRaised(f))
    ELSE IF Len(f) > 17 THEN Ok(VmstatDict(f) @@ [cpu_gu_pct |-> f[18].val])
    ELSE Ok(VmstatDict(f))

\* the dict literal of parse_vmstat_log and the optional cpu_gu_pct;
\* parts has at least 17 elements
VmstatSample(parts) == VmstatFrom(VmstatFields(parts))

IostatFrom(f) ==
    IF FirstRaised(f) # "none" THEN Raise(FirstRaised(f))
    ELSE Ok([cpu_us_pct |-> f[1].val, cpu_sy_pct |-> f[2].val,
             cpu_id_pct |-> f[3].val, cpu_wa_pct |-> Fin(0), cpu_st_pct |-> Fin(0),
             memory_free_kb |-> 0, memory_swpd_kb |-> 0,
             memory_buff_kb |-> 0, memory_cache_kb |-> 0])

\* the sample of parse_macos_iostat_log; parts has at least 6 elements
IostatSample(parts) ==
    IostatFrom(<<PyFloat(parts[4]), PyFloat(parts[5]), PyFloat(parts[6])>>)

PidstatDict(f) ==
    [pid |-> f[1].val, cpu_usr_pct |-> f[2].val, cpu_system_pct |-> f[3].val,
     cpu_guest_pct |-> f[4].val, cpu_total_pct |-> f[5].val]

\* the dict of parse_pidstat_log and the optional memory_rss_kb read from rss
PidstatFrom(f, rss) ==
    IF FirstRaised(f) # "none" THEN Raise(FirstRaised(f))
    ELSE IF IsDigit(rss) /\ DecimalValue(rss) > 1000
    THEN Ok(PidstatDict(f) @@ [memory_rss_kb |-> DecimalValue(rss)])
    ELSE Ok(PidstatDict(f))

\* the layout with a UID column: time uid pid %usr %system %guest %wait %CPU
PidstatSampleWithUid(parts) ==
    PidstatFrom(<<IntField(parts[3]), PctField(parts[4]), PctField(parts[5]),
                  PctField(parts[6]), PctField(parts[8])>>, parts[7])

\* the sample of parse_pidstat_log; parts has at least 8 elements
PidstatSample(parts) ==
    PidstatFrom(<<IntField(parts[2]), PctField(parts[3]), PctField(parts[4]),
                  PctField(parts[5]), PctField(parts[6])>>, parts[7])

(* ------------------------------------------------------------------ *)
(* CSV                                                                 *)
(* ------------------------------------------------------------------ *)

\* one row of csv.reader for a line without quote characters: the cells
\* between the commas; an empty line is the empty row
RECURSIVE CsvCells(_)
CsvCut(s, comma) ==
    IF comma = 0 THEN <<s>>
    ELSE <<SubSeq(s, 1, comma - 1)>> \o CsvCells(SubSeq(s, comma + 1, Len(s)))

CsvCells(s) == CsvCut(s, FirstIn({k \in 1..Len(s) : Ch(s, k) = ","}, 0))

CsvRowOf(s) == IF s = "" THEN <<>> ELSE CsvCells(s)

\* the index counted from 1
HeaderGetOneBased(header, name, default) ==
    IF \E k \in DOMAIN header : header[k] = name
    THEN MaxOf({k \in DOMAIN header : header[k] = name})
    ELSE default

\* header_map.get(name, default): the index (from 0) of the last cell equal
\* to name
HeaderGet(header, name, default) ==
    IF \E k \in DOMAIN header : header[k] = name
    THEN MaxOf({k \in DOMAIN header : header[k] = name}) - 1
    ELSE default

NoColumns == [has_header |-> FALSE, ts |-> 0, cpu |-> 1, pid |-> 2]

ColumnsOf(header) ==
    IF (\E k \in DOMAIN header : Contains(header[k], "cpu"))
       \/ (\E k \in DOMAIN header : Contains(header[k], "timestamp"))
    THEN [has_header |-> TRUE,
          ts |-> HeaderGet(header, "timestamp_epoch_s", HeaderGet(header, "timestamp", 0)),
          cpu |-> HeaderGet(header, "cpu_pct",
                            HeaderGet(header, "%cpu", HeaderGet(header, "cpu", 1))),
          pid |-> HeaderGet(header, "pid", 2)]
    ELSE NoColumns

\* has_header and the three column indices from rows[0]
CsvColumns(row0) == ColumnsOf([k \in DOMAIN row0 |-> Lower(Strip(row0[k]))])

Max3(a, b, c) == IF a >= b /\ a >= c THEN a ELSE IF b >= c THEN b ELSE c

\* float(cpu_raw.replace(",", ".")) if cpu_raw else 0.0
CsvCpu(cpu_raw) ==
    IF cpu_raw # "" THEN PyFloat(Replace(cpu_raw, ",", ".")) ELSE Ok(Fin(0))

\* int(pid_raw) if pid_raw.isdigit() else 0
CsvPid(pid_raw) == IF IsDigit(pid_raw) THEN PyInt(pid_raw) ELSE Ok(0)

IntOfResult(r) == IF r.raised # "none" THEN r ELSE PyIntOfFloat(r.val)

\* int(float(ts_raw)) if ts_raw else 0
CsvTs(ts_raw) == IF ts_raw # "" THEN IntOfResult(PyFloat(ts_raw)) ELSE Ok(0)

\* the dict of parse_macos_ps_csv from cpu_val, pid_val, ts_val in the order
\* they are evaluated
CsvFrom(f) ==
    IF FirstRaised(f) # "none" THEN Raise(FirstRaised(f))
    ELSE Ok([pid |-> f[2].val, cpu_total_pct |-> f[1].val,
             timestamp_epoch_s |-> f[3].val])

\* the sample of parse_macos_ps_csv for a row that has the three columns
CsvSample(row, c) ==
    CsvFrom(<<CsvCpu(Strip(row[c.cpu + 1])), CsvPid(Strip(row[c.pid + 1])),
              CsvTs(Strip(row[c.ts + 1]))>>)

(* ------------------------------------------------------------------ *)
(* Format sniffing                                                     *)
(* ------------------------------------------------------------------ *)

\* parse_vmstat_log reads this many leading lines
SniffLines == 5

\* [f.readline().strip() for _ in range(5)]: past the end readline gives ''
FirstLines(ls) ==
    [k \in 1..SniffLines |-> IF k <= Len(ls) THEN Strip(ls[k]) ELSE ""]

IsMacosTop(first_lines) ==
    \E k \in DOMAIN first_lines :
        Contains(first_lines[k], "CPU usage:") \/ Contains(first_lines[k], "PhysMem:")

IsMacosIostat(first_lines) ==
    \E k \in DOMAIN first_lines :
        \/ /\ Contains(Lower(first_lines[k]), "cpu")
           /\ Contains(Lower(first_lines[k]), "load average")
        \/ /\ Contains(first_lines[k], "KB/t")
           /\ (Contains(first_lines[k], "us") \/ Contains(first_lines[k], "sy"))

\* iostat tested before top
FormatOfIostatFirst(first_lines) ==
    IF IsMacosIostat(first_lines) THEN "macos_iostat"
    ELSE IF IsMacosTop(first_lines) THEN "macos_top"
    ELSE "linux_vmstat"

\* the branch taken for the lines sniffed
FormatOf(first_lines) ==
    IF IsMacosTop(first_lines) THEN "macos_top"
    ELSE IF IsMacosIostat(first_lines) THEN "macos_iostat"
    ELSE "linux_vmstat"

\* the branch parse_vmstat_log takes for an existing file
SniffFormat(ls) == FormatOf(FirstLines(ls))

\* the test parse_pidstat_log makes on the first line
IsPsCsv(first_line) ==
    /\ Contains(first_line, ",")
    /\ ~Contains(first_line, "PID")
    /\ ~Contains(first_line, "Average")

(* ------------------------------------------------------------------ *)
(* One line of each parser                                             *)
(* ------------------------------------------------------------------ *)

EmptyDict == <<>>

HasKey(d, key) == key \in DOMAIN d

\* the sample put in front of the earlier ones
PrependUnlessRaised(ss, r) == IF r.raised = "none" THEN <<r.val>> \o ss ELSE ss

\* samples.append(sample), or the continue of the except clause
AppendUnlessRaised(ss, r) == IF r.raised = "none" THEN Append(ss, r.val) ELSE ss

\* parse_vmstat_log: a data line once the header has been found
VmstatData(ss, parts) ==
    IF Len(parts) < 17 THEN ss ELSE AppendUnlessRaised(ss, VmstatSample(parts))

\* data rows parsed whether or not a header has been seen
VmstatStrippedNoSeek(hf, ss, line) ==
    IF line = "" \/ StartsWith(line, "procs") \/ StartsWith(line, "r")
    THEN [header_found |-> hf \/ Contains(line, "procs") \/ StartsWith(line, "r"),
          samples |-> ss]
    ELSE [header_found |-> hf, samples |-> VmstatData(ss, Split(line))]

\* parse_vmstat_log: the body of the loop for the stripped line
VmstatStripped(hf, ss, line) ==
    IF line = "" \/ StartsWith(line, "procs") \/ StartsWith(line, "r")
    THEN [header_found |-> hf \/ Contains(line, "procs") \/ StartsWith(line, "r"),
          samples |-> ss]
    ELSE IF ~hf THEN [header_found |-> hf, samples |-> ss]
    ELSE [header_found |-> hf, samples |-> VmstatData(ss, Split(line))]

\* parse_vmstat_log, the body of the loop
VmstatStep(hf, ss, raw) == VmstatStripped(hf, ss, Strip(raw))

\* the fields a matching "CPU usage:" line sets
CpuFields(m) ==
    [cpu_us_pct |-> PyFloat(m.g1).val, cpu_sy_pct |-> PyFloat(m.g2).val,
     cpu_id_pct |-> PyFloat(m.g3).val, cpu_wa_pct |-> Fin(0), cpu_st_pct |-> Fin(0)]

\* the fields a matching "PhysMem:" line sets
MemFields(m) ==
    [memory_free_kb |-> DecimalValue(m.g1) * 1024, memory_swpd_kb |-> 0,
     memory_buff_kb |-> 0, memory_cache_kb |-> 0]

SetCpu(cs, m) == IF m.matched THEN CpuFields(m) @@ cs ELSE cs

SetMem(cs, m) == IF m.matched THEN MemFields(m) @@ cs ELSE cs

\* the accumulator kept after a flush
TopStrippedNoReset(cs, ss, line) ==
    IF line = ""
    THEN IF HasKey(cs, "cpu_us_pct")
         THEN [current_sample |-> cs, samples |-> Append(ss, cs)]
         ELSE [current_sample |-> cs, samples |-> ss]
    ELSE IF Contains(line, "CPU usage:")
    THEN [current_sample |-> SetCpu(cs, CpuRegex(line)), samples |-> ss]
    ELSE IF Contains(line, "PhysMem:")
    THEN [current_sample |-> SetMem(cs, MemRegex(line)), samples |-> ss]
    ELSE [current_sample |-> cs, samples |-> ss]

\* parse_macos_top_log: the body of the loop for the stripped line
TopStripped(cs, ss, line) ==
    IF line = ""
    THEN IF HasKey(cs, "cpu_us_pct")
         THEN [current_sample |-> EmptyDict, samples |-> Append(ss, cs)]
         ELSE [current_sample |-> cs, samples |-> ss]
    ELSE IF Contains(line, "CPU usage:")
    THEN [current_sample |-> SetCpu(cs, CpuRegex(line)), samples |-> ss]
    ELSE IF Contains(line, "PhysMem:")
    THEN [current_sample |-> SetMem(cs, MemRegex(line)), samples |-> ss]
    ELSE [current_sample |-> cs, samples |-> ss]

\* parse_macos_top_log, the body of the loop
TopStep(cs, ss, raw) == TopStripped(cs, ss, Strip(raw))

\* the last block dropped
TopAtEOFNoFlush(cs, ss) == ss

\* parse_macos_top_log after the loop: the last block
TopAtEOF(cs, ss) == IF HasKey(cs, "cpu_us_pct") THEN Append(ss, cs) ELSE ss

\* parse_macos_iostat_log: a data line once both headers have been found
IostatData(ss, parts) ==
    IF Len(parts) < 6 THEN ss ELSE AppendUnlessRaised(ss, IostatSample(parts))

\* the column header recognised without a section header before it
IostatStrippedAnyOrder(hf, chf, ss, line) ==
    IF line = ""
    THEN [header_found |-> hf, column_header_found |-> chf, samples |-> ss]
    ELSE IF Contains(Lower(line), "cpu") /\ Contains(Lower(line), "load average")
    THEN [header_found |-> TRUE, column_header_found |-> chf, samples |-> ss]
    ELSE IF (Contains(line, "KB/t") \/ Contains(line, "tps"))
            /\ (Contains(line, "us") \/ Contains(line, "sy"))
    THEN [header_found |-> hf, column_header_found |-> TRUE, samples |-> ss]
    ELSE IF ~hf \/ ~chf
    THEN [header_found |-> hf, column_header_found |-> chf, samples |-> ss]
    ELSE [header_found |-> hf, column_header_found |-> chf,
          samples |-> IostatData(ss, Split(line))]

\* a section header starts the search for the column header over
IostatStrippedResetting(hf, chf, ss, line) ==
    IF line = ""
    THEN [header_found |-> hf, column_header_found |-> chf, samples |-> ss]
    ELSE IF Contains(Lower(line), "cpu") /\ Contains(Lower(line), "load average")
    THEN [header_found |-> TRUE, column_header_found |-> FALSE, samples |-> ss]
    ELSE IF ~hf
    THEN [header_found |-> hf, column_header_found |-> chf, samples |-> ss]
    ELSE IF (Contains(line, "KB/t") \/ Contains(line, "tps"))
            /\ (Contains(line, "us") \/ Contains(line, "sy"))
    THEN [header_found |-> hf, column_header_found |-> TRUE, samples |-> ss]
    ELSE IF ~chf
    THEN [header_found |-> hf, column_header_found |-> chf, samples |-> ss]
    ELSE [header_found |-> hf, column_header_found |-> chf,
          samples |-> IostatData(ss, Split(line))]

\* parse_macos_iostat_log: the body of the loop for the stripped line
IostatStripped(hf, chf, ss, line) ==
    IF line = ""
    THEN [header_found |-> hf, column_header_found |-> chf, samples |-> ss]
    ELSE IF Contains(Lower(line), "cpu") /\ Contains(Lower(line), "load average")
    THEN [header_found |-> TRUE, column_header_found |-> chf, samples |-> ss]
    ELSE IF ~hf
    THEN [header_found |-> hf, column_header_found |-> chf, samples |-> ss]
    ELSE IF (Contains(line, "KB/t") \/ Contains(line, "tps"))
            /\ (Contains(line, "us") \/ Contains(line, "sy"))
    THEN [header_found |-> hf, column_header_found |-> TRUE, samples |-> ss]
    ELSE IF ~chf
    THEN [header_found |-> hf, column_header_found |-> chf, samples |-> ss]
    ELSE [header_found |-> hf, column_header_found |-> chf,
          samples |-> IostatData(ss, Split(line))]

\* parse_macos_iostat_log, the body of the loop
IostatStep(hf, chf, ss, raw) == IostatStripped(hf, chf, ss, Strip(raw))

\* the match made case-sensitive
NameMatchesCaseSensitive(name, line) == Contains(line, name)

\* process_name.lower() in line.lower()
NameMatches(name, line) == Contains(Lower(line), Lower(name))

\* parse_pidstat_log: a line of the target process
PidstatData(ss, parts) ==
    IF Len(parts) < 8 THEN ss ELSE AppendUnlessRaised(ss, PidstatSample(parts))

\* lines of the process parsed whether or not a header has been seen
PidstatStrippedNoSeek(hf, ss, name, line) ==
    IF line = "" THEN [header_found |-> hf, samples |-> ss]
    ELSE IF Contains(line, "PID") /\ Contains(line, "CPU")
    THEN [header_found |-> TRUE, samples |-> ss]
    ELSE IF ~NameMatches(name, line) THEN [header_found |-> hf, samples |-> ss]
    ELSE [header_found |-> hf, samples |-> PidstatData(ss, Split(line))]

\* parse_pidstat_log: the body of the loop for the stripped line
PidstatStripped(hf, ss, name, line) ==
    IF line = "" THEN [header_found |-> hf, samples |-> ss]
    ELSE IF Contains(line, "PID") /\ Contains(line, "CPU")
    THEN [header_found |-> TRUE, samples |-> ss]
    ELSE IF ~hf \/ ~NameMatches(name, line) THEN [header_found |-> hf, samples |-> ss]
    ELSE [header_found |-> hf, samples |-> PidstatData(ss, Split(line))]

\* parse_pidstat_log, the body of the loop
PidstatStep(hf, ss, name, raw) == PidstatStripped(hf, ss, name, Strip(raw))

\* the try block of parse_macos_ps_csv: ValueError and IndexError are caught
CsvTry(ss, r) ==
    IF r.raised = "none" THEN [samples |-> Append(ss, r.val), raised |-> "none"]
    ELSE IF r.raised \in {"ValueError", "IndexError"}
    THEN [samples |-> ss, raised |-> "none"]
    ELSE [samples |-> ss, raised |-> r.raised]

CsvParsed(ss, c, row) ==
    IF Len(row) <= Max3(c.ts, c.cpu, c.pid) THEN [samples |-> ss, raised |-> "none"]
    ELSE CsvTry(ss, CsvSample(row, c))

\* parse_macos_ps_csv, the body of the loop: the new samples, and the
\* exception that leaves the loop ("none" if none does)
CsvStep(ss, c, raw) == CsvParsed(ss, c, CsvRowOf(raw))

(* ------------------------------------------------------------------ *)
(* The summary step of main                                            *)
(* ------------------------------------------------------------------ *)

FAdd(a, b) ==
    IF a.k = "nan" \/ b.k = "nan" THEN NaN
    ELSE IF a.k = "inf" /\ b.k = "inf" THEN (IF a.n = b.n THEN a ELSE NaN)
    ELSE IF a.k = "inf" THEN a
    ELSE IF b.k = "inf" THEN b
    ELSE Fin(a.n + b.n)

\* a > b on floats
FGt(a, b) ==
    IF a.k = "nan" \/ b.k = "nan" THEN FALSE
    ELSE IF a.k = "inf" THEN a.n > 0 /\ ~(b.k = "inf" /\ b.n > 0)
    ELSE IF b.k = "inf" THEN b.n < 0
    ELSE a.n > b.n

\* sum(s[key] for s in ss)
RECURSIVE FSum(_, _)
FSum(ss, key) ==
    IF ss = <<>> THEN Fin(0)
    ELSE FAdd(FSum(SubSeq(ss, 1, Len(ss) - 1), key), ss[Len(ss)][key])

\* total / count: the quotient is kept as the pair (total, count)
Quotient(total, count) == [k |-> total.k, n |-> total.n, d |-> count]

\* sum(...) / len(ss)
Avg(ss, key) == Quotient(FSum(ss, key), Len(ss))

Greater(m, x) == IF FGt(x, m) THEN x ELSE m

\* max(s[key] for s in ss): the first item, replaced by each later item
\* that compares greater
RECURSIVE FMax(_, _)
FMax(ss, key) ==
    IF Len(ss) = 1 THEN ss[1][key]
    ELSE Greater(FMax(SubSeq(ss, 1, Len(ss) - 1), key), ss[Len(ss)][key])

\* the largest value taken in place of the smallest
IMinAsMax(ss, key) == MaxOf({ss[k][key] : k \in DOMAIN ss})

\* min(s[key] for s in ss) on integers
IMin(ss, key) == MinOf({ss[k][key] : k \in DOMAIN ss})

VmstatSummaryKeys == {"cpu_us_pct", "cpu_sy_pct", "cpu_id_pct", "memory_free_kb"}

PidstatSummaryKeys == {"cpu_total_pct"}

\* result["vmstat_summary"]; a sample without one of the keys read is a KeyError
VmstatSummary(ss) ==
    IF \E k \in DOMAIN ss : ~(VmstatSummaryKeys \subseteq DOMAIN ss[k])
    THEN Raise("KeyError")
    ELSE Ok([sample_count |-> Len(ss),
             avg_cpu_us_pct |-> Avg(ss, "cpu_us_pct"),
             avg_cpu_sy_pct |-> Avg(ss, "cpu_sy_pct"),
             avg_cpu_id_pct |-> Avg(ss, "cpu_id_pct"),
             peak_memory_free_kb |-> IMin(ss, "memory_free_kb")])

\* result["pidstat_summary"]
PidstatSummary(ss) ==
    IF \E k \in DOMAIN ss : ~(PidstatSummaryKeys \subseteq DOMAIN ss[k])
    THEN Raise("KeyError")
    ELSE Ok([sample_count |-> Len(ss),
             avg_cpu_total_pct |-> Avg(ss, "cpu_total_pct"),
             peak_cpu_total_pct |-> FMax(ss, "cpu_total_pct")])

NoSummary == <<>>

(* ------------------------------------------------------------------ *)
(* The JSON envelope main accepts in place of a raw log                *)
(* ------------------------------------------------------------------ *)

\* the text of a file: its lines, each with its terminator
RECURSIVE FileText(_)
FileText(ls) ==
    IF ls = <<>> THEN "" ELSE ls[1] \o "\n" \o FileText(SubSeq(ls, 2, Len(ls)))

\* f.read(1)
FirstChar(text) == IF text = "" THEN "" ELSE Ch(text, 1)

JsonWhitespace == {" ", "\t", "\n"}

\* first position at or after p that holds no JSON whitespace
JsonSkip(s, p) ==
    FirstIn({m \in p..Len(s) : Ch(s, m) \notin JsonWhitespace}, Len(s) + 1)

\* the character at position p, or nothing past the end of the text
CharAt(s, p) == IF p \in 1..Len(s) THEN Ch(s, p) ELSE ""

JsonFail == [ok |-> FALSE, val |-> 0, pos |-> 0]

JsonAt(v, p) == [ok |-> TRUE, val |-> v, pos |-> p]

\* a string (no escapes) whose opening quote is at p and closing quote at q
JsonStringTo(s, p, q) == IF q = 0 THEN JsonFail ELSE JsonAt(SubSeq(s, p + 1, q - 1), q + 1)

JsonString(s, p) ==
    IF CharAt(s, p) # "\"" THEN JsonFail
    ELSE JsonStringTo(s, p, FirstIn({m \in (p + 1)..Len(s) : Ch(s, m) = "\""}, 0))

\* a number with a fraction from position e + 1 to f - 1: a float
JsonFraction(s, p, e, f) ==
    IF f = e + 1 THEN JsonFail ELSE JsonAt(PyFloat(SubSeq(s, p, f - 1)).val, f)

\* an unsigned number that begins at p and whose integer digits end before
\* e: an int, or a float when a fraction follows
JsonNumberTo(s, p, e) ==
    IF CharAt(s, e) = "." THEN JsonFraction(s, p, e, DigitRunEnd(s, e + 1))
    ELSE JsonAt(DecimalValue(SubSeq(s, p, e - 1)), e)

JsonNumber(s, p) == JsonNumberTo(s, p, DigitRunEnd(s, p))

RECURSIVE JsonValue(_, _), JsonMembers(_, _, _), JsonElements(_, _, _)

\* after a member or an element at position p: a comma, or the closing c
JsonAfterMember(s, p, c, acc) ==
    IF CharAt(s, p) = c THEN JsonAt(acc, p + 1)
    ELSE IF CharAt(s, p) # "," THEN JsonFail
    ELSE IF c = "}" THEN JsonMembers(s, JsonSkip(s, p + 1), acc)
    ELSE JsonElements(s, JsonSkip(s, p + 1), acc)

\* a later member replaces an earlier one of the same name
JsonMemberDone(s, key, v, acc) ==
    IF ~v.ok THEN JsonFail
    ELSE JsonAfterMember(s, JsonSkip(s, v.pos), "}", (key.val :> v.val) @@ acc)

JsonMemberValue(s, key, p, acc) ==
    IF CharAt(s, p) # ":" THEN JsonFail
    ELSE JsonMemberDone(s, key, JsonValue(s, JsonSkip(s, p + 1)), acc)

JsonMemberKey(s, key, acc) ==
    IF ~key.ok THEN JsonFail ELSE JsonMemberValue(s, key, JsonSkip(s, key.pos), acc)

\* the members of an object from position p
JsonMembers(s, p, acc) == JsonMemberKey(s, JsonString(s, p), acc)

JsonElementDone(s, v, acc) ==
    IF ~v.ok THEN JsonFail
    ELSE JsonAfterMember(s, JsonSkip(s, v.pos), "]", Append(acc, v.val))

\* the elements of an array from position p
JsonElements(s, p, acc) == JsonElementDone(s, JsonValue(s, p), acc)

\* the object or array opened before p and closed by c when it is empty
JsonOpened(s, p, c) ==
    IF CharAt(s, p) = c THEN JsonAt(<<>>, p + 1)
    ELSE IF c = "}" THEN JsonMembers(s, p, <<>>)
    ELSE JsonElements(s, p, <<>>)

\* the value at position p: an object, an array, a string or a number
JsonValue(s, p) ==
    IF CharAt(s, p) = "{" THEN JsonOpened(s, JsonSkip(s, p + 1), "}")
    ELSE IF CharAt(s, p) = "[" THEN JsonOpened(s, JsonSkip(s, p + 1), "]")
    ELSE IF CharAt(s, p) = "\"" THEN JsonString(s, p)
    ELSE IF CharAt(s, p) \in Digits THEN JsonNumber(s, p)
    ELSE JsonFail

\* nothing but whitespace may follow the value
JsonDocument(s, v) ==
    IF v.ok /\ JsonSkip(s, v.pos) > Len(s) THEN Ok(v.val) ELSE Raise("JSONDecodeError")

\* json.load(f)
JsonLoad(text) == JsonDocument(text, JsonValue(text, JsonSkip(text, 1)))

\* data.get(key, [])
JsonGet(data, key) == IF key \in DOMAIN data THEN data[key] ELSE <<>>

(* ------------------------------------------------------------------ *)
(* Input files                                                         *)
(* ------------------------------------------------------------------ *)

\* longest file drawn freely from a pool
MaxLines == 3

DefaultProcessName == "ServerLoadTest"

ProcessNames == {"Foo", "BAR"}

VmstatHeader1 == "procs ---memory--- ---cpu---"
VmstatHeader2 == " r  b   swpd   free   buff  cache   si   so    bi    bo   in   cs us sy id wa st"
VmstatRow17 == "2 0 0 102400 20480 512000 0 0 5 10 100 200 15.0 5.0 78.0 2.0 0.0"
VmstatRow18 == "1 0 0 2048 10 20 0 0 1 2 3 4 5 6 89 0 0 7"
VmstatRow16 == "1 0 0 2048 10 20 0 0 1 2 3 4 5 6 89 0"
VmstatRowDots == "1 0 x 2048 10 20 0 0 1 2 3 4 1.2.3 6 89 0 0"
VmstatRowWord == "1 0 x 2048 10 20 0 0 1 2 3 4 abc 6 89 0 0"

\* lines of a process listing: the first starts with the letter r, the
\* second has 17 tokens
PsRowRoot == "root 1 0.0 0.1 /sbin/init"
PsRow17 == "www 812 0.0 0.1 1 2 ? S 10:00 0:00 nginx -g daemon off -c nginx.conf -q"

TopCpuLine == "CPU usage: 12.34% user, 5.67% sys, 82.00% idle"
TopCpuLine2 == "CPU usage: 1.2.3% user, 5.% sys, 82%  idle"
TopCpuBad == "CPU usage: n/a"
TopMemLine == "PhysMem: 8192M used, 512M free"
TopMemBad == "PhysMem: 8192M used"
TopOther == "Processes: 400 total"

IostatHeader == "    disk0       cpu    load average"
IostatColumns == "KB/t  tps  MB/s  us sy id   1m   5m   15m"
IostatRow == "4.49 4596 20.15  14 11 74  4.34 3.85 3.82"
IostatRowBad == "4.49 4596 20.15 x 11 74"
IostatRowInf == "1 2 3 inf nan 5"
IostatRowShort == "1 2 3"

CsvHeader == "timestamp_epoch_s,cpu_pct,pid"
CsvHeaderShort == "pid,cpu"
CsvHeaderAlias == "PID, %CPU ,Timestamp"
CsvRowGood == "1700,12.5,123"
CsvRowInf == "inf,1.0,123"
CsvRowNan == "nan,1,2"
CsvRowWord == "1,abc,2"
CsvRowShort == "1,2"
CsvRowEmptyCpu == "17.9,,x"

PidstatHeader == "Time PID %usr %system %guest %CPU CPU Command"
PidstatRowFoo == "12:00:01 123 1.50 0.50 0.00 2.00 3 foobar"
PidstatRowBar == "12:00:02 456 1.00 1.00 0.00 2.00 1 Bar"
PidstatRowRss == "12:00:03 123 1.0 2.0 0.0 3.0 20480 foobar"
PidstatRowShort == "12:00:04 123 1.0 foobar"
PidstatRowUnit == "12:00:06 123 1.0 2.0 0.0 3.0 4096K foobar"
PidstatRowDots == "12:00:05 123 1.2.3 0.5 0.0 2.0 3 foobar"
PidstatAverage == "Average: 123 1,50 0,50 0,00 2,00 3 foobar"

JsonVmstatDoc ==
    "{\"vmstat\": [{\"cpu_us_pct\": 1.5, \"cpu_sy_pct\": 2.5, \"cpu_id_pct\": 96.0, \"memory_free_kb\": 2048}]}"
JsonPidstatDoc ==
    "{\"pidstat\": [{\"pid\": 7, \"cpu_total_pct\": 10.0}, {\"pid\": 7, \"cpu_total_pct\": 30.0}]}"
JsonEmptyObject == "{}"
JsonNotJson == "{not json"
JsonOpenArray == "{\"vmstat\": ["
JsonCloseArray == "]}"

\* a line no parser and no sniffing rule recognises
NeutralLine == "# sampled every 1s"

VmstatSlotPool ==
    {"", VmstatHeader1, VmstatHeader2, VmstatRow17, VmstatRow18, VmstatRow16,
     VmstatRowDots, VmstatRowWord, PsRowRoot, PsRow17, TopCpuLine, TopMemLine,
     IostatHeader, IostatColumns, IostatRow}

TopPool == {"", TopCpuLine, TopCpuLine2, TopCpuBad, TopMemLine, TopMemBad, TopOther}

IostatPool ==
    {"", IostatHeader, IostatColumns, IostatRow, IostatRowBad, IostatRowInf,
     IostatRowShort}

CsvPool ==
    {"", CsvHeader, CsvHeaderShort, CsvHeaderAlias, CsvRowGood, CsvRowInf, CsvRowNan, CsvRowWord,
     CsvRowShort, CsvRowEmptyCpu}

PidstatSlotPool ==
    {"", PidstatHeader, PidstatRowFoo, PidstatRowBar, PidstatRowRss, PidstatRowShort,
     PidstatRowUnit, PidstatRowDots, PidstatAverage, CsvRowGood, CsvRowInf}

JsonPool ==
    {JsonVmstatDoc, JsonPidstatDoc, JsonEmptyObject, JsonNotJson, JsonOpenArray,
     JsonCloseArray}

\* longest file of JSON lines
MaxJsonLines == 2

\* longest file a caller parses twice
MaxRepeatLines == 2

\* the files of at most n lines over a pool
Files(pool, n) == UNION {[1..k -> pool] : k \in 0..n}

\* a pool line behind k neutral lines
Padded(pool, k) == {[j \in 1..k |-> NeutralLine] \o <<l>> : l \in pool}

\* iostat output with one more line between its headers and a data row
IostatInterrupted ==
    {<<IostatHeader, IostatColumns, l, IostatRow>> : l \in IostatPool}

\* the keys of the two slots exchanged
SlotKeyExchanged(e) == IF e = "parse_vmstat_log" THEN "pidstat" ELSE "vmstat"

\* a command-line argument that names a file: absent, or the file given
NoArg == [given |-> FALSE, exists |-> FALSE, lines |-> <<>>]

FileArg(x, ls) == [given |-> TRUE, exists |-> x, lines |-> ls]

\* neither --monitoring-json nor a second slot
NoArgs == [monitoring_json |-> NoArg, pidstat |-> NoArg]

\* result["vmstat"] / result["pidstat"], the key of the slot
SlotKey(e) == IF e = "parse_vmstat_log" THEN "vmstat" ELSE "pidstat"

\* the key of the other slot
OtherKey(e) == IF e = "parse_vmstat_log" THEN "pidstat" ELSE "vmstat"

\* the result dict of main outside the slot of the parser e: the array of
\* the other slot, empty; nothing for a parser main does not call
OtherSlotEmpty(e) ==
    IF e \in {"parse_vmstat_log", "parse_pidstat_log"} THEN (OtherKey(e) :> <<>>)
    ELSE <<>>

\* a call of the parser e
Scenario(e, x, ls, name) ==
    [entry |-> e, start |-> e, exists |-> x, lines |-> ls, process_name |-> name,
     args |-> NoArgs, main_result |-> OtherSlotEmpty(e)]

\* a run of main with the file in the slot whose text parser is e
MainScenario(e, x, ls, name) ==
    [entry |-> e, start |-> "main", exists |-> x, lines |-> ls, process_name |-> name,
     args |-> NoArgs, main_result |-> OtherSlotEmpty(e)]

\* a run of main with --vmstat and --pidstat: the vmstat slot comes first
BothScenario(v, p, name) ==
    [entry |-> "parse_vmstat_log", start |-> "main", exists |-> v.exists,
     lines |-> v.lines, process_name |-> name,
     args |-> [monitoring_json |-> NoArg, pidstat |-> p],
     main_result |-> ("pidstat" :> <<>>)]

\* a run of main with --monitoring-json and with the raw logs v and p
MonitoringScenario(m, v, p, name) ==
    [entry |-> "parse_vmstat_log", start |-> "main", exists |-> v.exists,
     lines |-> v.lines, process_name |-> name,
     args |-> [monitoring_json |-> m, pidstat |-> p],
     main_result |-> ("pidstat" :> <<>>)]

Entries ==
    {"parse_vmstat_log", "parse_macos_top_log", "parse_macos_iostat_log",
     "parse_macos_ps_csv", "parse_pidstat_log"}

\* the files main is run on in the slot of a pool: JSON lines, and short
\* files over the pool
MainFiles(pool) == Files(JsonPool, MaxJsonLines) \cup Files(pool, MaxLines - 1)

\* the runs of main explored, one slot at a time
MainScenarios ==
    {MainScenario(e, FALSE, <<>>, DefaultProcessName) :
        e \in {"parse_vmstat_log", "parse_pidstat_log"}}
    \cup {MainScenario("parse_vmstat_log", TRUE, f, DefaultProcessName) :
            f \in MainFiles(VmstatSlotPool)}
    \cup {MainScenario("parse_pidstat_log", TRUE, f, n) :
            f \in MainFiles(PidstatSlotPool), n \in ProcessNames}

\* the raw logs and envelopes given to main together
BothVmstatArgs ==
    {FileArg(FALSE, <<>>), FileArg(TRUE, <<>>), FileArg(TRUE, <<JsonNotJson>>),
     FileArg(TRUE, <<JsonVmstatDoc>>), FileArg(TRUE, <<VmstatHeader2, VmstatRow17>>),
     FileArg(TRUE, <<TopCpuLine>>), FileArg(TRUE, <<PsRowRoot, PsRow17>>)}

BothPidstatArgs ==
    {FileArg(FALSE, <<>>), FileArg(TRUE, <<>>), FileArg(TRUE, <<JsonNotJson>>),
     FileArg(TRUE, <<JsonPidstatDoc>>), FileArg(TRUE, <<PidstatHeader, PidstatRowFoo>>),
     FileArg(TRUE, <<CsvRowGood, CsvRowInf>>), FileArg(TRUE, <<CsvRowGood>>)}

BothScenarios ==
    {BothScenario(v, p, n) : v \in BothVmstatArgs, p \in BothPidstatArgs,
                             n \in ProcessNames}

\* the pre-parsed monitoring files: a missing one, and the files of JSON
\* lines
MonitoringArgs ==
    {FileArg(FALSE, <<>>)} \cup {FileArg(TRUE, f) : f \in Files(JsonPool, MaxJsonLines)}

\* main with --monitoring-json, with and without raw logs that would give
\* samples
MonitoringScenarios ==
    {MonitoringScenario(m, v, p, "Foo") :
        m \in MonitoringArgs,
        v \in {NoArg, FileArg(TRUE, <<VmstatHeader2, VmstatRow17>>),
                FileArg(TRUE, <<JsonVmstatDoc>>)},
        p \in {NoArg, FileArg(TRUE, <<PidstatHeader, PidstatRowFoo>>)}}

\* the calls explored: each parser on a missing file, on the files over its
\* pool, and the sniffing parser on files whose only recognisable line is
\* the last one looked at or the first one not looked at; and the runs of
\* main
Scenarios ==
    MainScenarios \cup BothScenarios \cup MonitoringScenarios \cup
    {Scenario(e, FALSE, <<>>, DefaultProcessName) : e \in Entries}
    \cup {Scenario("parse_vmstat_log", TRUE, f, DefaultProcessName) :
            f \in Files(VmstatSlotPool, MaxLines)
                  \cup Padded(VmstatSlotPool, SniffLines - 1)
                  \cup Padded(VmstatSlotPool, SniffLines)}
    \cup {Scenario("parse_macos_top_log", TRUE, f, DefaultProcessName) :
            f \in Files(TopPool, MaxLines)}
    \cup {Scenario("parse_macos_iostat_log", TRUE, f, DefaultProcessName) :
            f \in Files(IostatPool, MaxLines) \cup IostatInterrupted}
    \cup {Scenario("parse_macos_ps_csv", TRUE, f, DefaultProcessName) :
            f \in Files(CsvPool, MaxLines)}
    \cup {Scenario("parse_pidstat_log", TRUE, f, n) :
            f \in Files(PidstatSlotPool, MaxLines), n \in ProcessNames}

(* ------------------------------------------------------------------ *)
(* The state machine                                                   *)
(* ------------------------------------------------------------------ *)

\* a parser has just been called with a path and a process name
Init ==
    \E sc \in Scenarios :
        /\ entry = sc.entry
        /\ process_name = sc.process_name
        /\ exists = sc.exists
        /\ lines = sc.lines
        /\ pc = sc.start
        /\ i = 1
        /\ header_found = FALSE
        /\ column_header_found = FALSE
        /\ current_sample = EmptyDict
        /\ samples = <<>>
        /\ col = NoColumns
        /\ result = <<>>
        /\ exc = "none"
        /\ invoked = <<>>
        /\ summary = NoSummary
        /\ calls = <<>>
        /\ args = sc.args
        /\ main_result = sc.main_result

input == <<entry, process_name, exists, lines>>

\* return value: the caller has the sequence
Return(value) ==
    /\ result' = value
    /\ pc' = "returned"
    /\ UNCHANGED exc

\* the samples of an earlier call kept, as with a list shared between calls
StartLoopKeeping(loop, name) ==
    /\ pc' = loop
    /\ i' = 1
    /\ header_found' = FALSE
    /\ column_header_found' = FALSE
    /\ current_sample' = EmptyDict
    /\ samples' = samples
    /\ invoked' = Append(invoked, name)

\* start of a parser's loop, with its local variables fresh
StartLoop(loop, name) ==
    /\ pc' = loop
    /\ i' = 1
    /\ header_found' = FALSE
    /\ column_header_found' = FALSE
    /\ current_sample' = EmptyDict
    /\ samples' = <<>>
    /\ invoked' = Append(invoked, name)

\* the call or the loop parse_vmstat_log goes on to for the format sniffed
Dispatch(fmt) ==
    IF fmt = "macos_top"
    THEN /\ pc' = "parse_macos_top_log"
         /\ UNCHANGED <<i, header_found, column_header_found, current_sample,
                        samples, invoked>>
    ELSE IF fmt = "macos_iostat"
    THEN /\ pc' = "parse_macos_iostat_log"
         /\ UNCHANGED <<i, header_found, column_header_found, current_sample,
                        samples, invoked>>
    ELSE StartLoop("vmstat_loop", "linux_vmstat")

\* parse_vmstat_log up to its loop: the exists check and the sniffing
ParseVmstatLog ==
    /\ pc = "parse_vmstat_log"
    /\ IF ~exists
       THEN /\ Return(<<>>)
            /\ UNCHANGED <<i, header_found, column_header_found, current_sample,
                           samples, invoked>>
       ELSE /\ Dispatch(SniffFormat(lines))
            /\ UNCHANGED <<result, exc>>
    /\ UNCHANGED <<input, calls, args, main_result, col, summary>>

SetVmstat(r) ==
    /\ header_found' = r.header_found
    /\ samples' = r.samples

VmstatLine ==
    /\ pc = "vmstat_loop"
    /\ i <= Len(lines)
    /\ SetVmstat(VmstatStep(header_found, samples, lines[i]))
    /\ i' = i + 1
    /\ UNCHANGED <<input, calls, args, main_result, pc, column_header_found, current_sample, col, result, exc,
                   invoked, summary>>

VmstatReturn ==
    /\ pc = "vmstat_loop"
    /\ i > Len(lines)
    /\ Return(samples)
    /\ UNCHANGED <<input, calls, args, main_result, i, header_found, column_header_found, current_sample,
                   samples, col, invoked, summary>>

\* parse_macos_top_log up to its loop; open() of a missing file raises
TopOpen ==
    /\ pc = "parse_macos_top_log"
    /\ IF ~exists
       THEN /\ pc' = "raised"
            /\ exc' = "FileNotFoundError"
            /\ UNCHANGED <<i, header_found, column_header_found, current_sample,
                           samples, invoked>>
       ELSE /\ StartLoop("top_loop", "macos_top")
            /\ UNCHANGED exc
    /\ UNCHANGED <<input, calls, args, main_result, col, result, summary>>

SetTop(r) ==
    /\ current_sample' = r.current_sample
    /\ samples' = r.samples

TopLine ==
    /\ pc = "top_loop"
    /\ i <= Len(lines)
    /\ SetTop(TopStep(current_sample, samples, lines[i]))
    /\ i' = i + 1
    /\ UNCHANGED <<input, calls, args, main_result, pc, header_found, column_header_found, col, result, exc,
                   invoked, summary>>

TopReturn ==
    /\ pc = "top_loop"
    /\ i > Len(lines)
    /\ Return(TopAtEOF(current_sample, samples))
    /\ UNCHANGED <<input, calls, args, main_result, i, header_found, column_header_found, current_sample,
                   samples, col, invoked, summary>>

\* parse_macos_iostat_log up to its loop; open() of a missing file raises
IostatOpen ==
    /\ pc = "parse_macos_iostat_log"
    /\ IF ~exists
       THEN /\ pc' = "raised"
            /\ exc' = "FileNotFoundError"
            /\ UNCHANGED <<i, header_found, column_header_found, current_sample,
                           samples, invoked>>
       ELSE /\ StartLoop("iostat_loop", "macos_iostat")
            /\ UNCHANGED exc
    /\ UNCHANGED <<input, calls, args, main_result, col, result, summary>>

SetIostat(r) ==
    /\ header_found' = r.header_found
    /\ column_header_found' = r.column_header_found
    /\ samples' = r.samples

IostatLine ==
    /\ pc = "iostat_loop"
    /\ i <= Len(lines)
    /\ SetIostat(IostatStep(header_found, column_header_found, samples, lines[i]))
    /\ i' = i + 1
    /\ UNCHANGED <<input, calls, args, main_result, pc, current_sample, col, result, exc, invoked, summary>>

IostatReturn ==
    /\ pc = "iostat_loop"
    /\ i > Len(lines)
    /\ Return(samples)
    /\ UNCHANGED <<input, calls, args, main_result, i, header_found, column_header_found, current_sample,
                   samples, col, invoked, summary>>

\* parse_macos_ps_csv up to its loop: the exists check, the rows, the header
CsvOpen ==
    /\ pc = "parse_macos_ps_csv"
    /\ IF ~exists \/ lines = <<>>
       THEN /\ Return(<<>>)
            /\ UNCHANGED <<i, header_found, column_header_found, current_sample,
                           samples, invoked, col>>
       ELSE /\ StartLoop("csv_loop", "macos_ps_csv")
            /\ col' = CsvColumns(CsvRowOf(lines[1]))
            /\ UNCHANGED <<result, exc>>
    /\ UNCHANGED <<input, calls, args, main_result, summary>>

\* the line of the i-th row the loop of parse_macos_ps_csv reads
CsvLineNo == IF col.has_header THEN i + 1 ELSE i

\* the row is done, or an exception the loop does not catch leaves
\* parse_macos_ps_csv: parse_pidstat_log, when it is the caller, catches it
\* and goes on to its own loop
SetCsv(r) ==
    IF r.raised = "none"
    THEN /\ samples' = r.samples
         /\ i' = i + 1
         /\ UNCHANGED <<pc, exc, header_found, column_header_found,
                        current_sample, invoked>>
    ELSE IF entry = "parse_pidstat_log"
    THEN /\ StartLoop("pidstat_loop", "pidstat_text")
         /\ UNCHANGED exc
    ELSE /\ pc' = "raised"
         /\ exc' = r.raised
         /\ UNCHANGED <<i, samples, header_found, column_header_found,
                        current_sample, invoked>>

CsvRow ==
    /\ pc = "csv_loop"
    /\ CsvLineNo <= Len(lines)
    /\ SetCsv(CsvStep(samples, col, lines[CsvLineNo]))
    /\ UNCHANGED <<input, calls, args, main_result, col, result, summary>>

CsvReturn ==
    /\ pc = "csv_loop"
    /\ CsvLineNo > Len(lines)
    /\ Return(samples)
    /\ UNCHANGED <<input, calls, args, main_result, i, header_found, column_header_found, current_sample,
                   samples, col, invoked, summary>>

\* f.readline().strip() of parse_pidstat_log
FirstLine(ls) == IF ls = <<>> THEN "" ELSE Strip(ls[1])

\* parse_pidstat_log up to its loop: the exists check and the CSV detection
ParsePidstatLog ==
    /\ pc = "parse_pidstat_log"
    /\ IF ~exists
       THEN /\ Return(<<>>)
            /\ UNCHANGED <<i, header_found, column_header_found, current_sample,
                           samples, invoked>>
       ELSE IF IsPsCsv(FirstLine(lines))
       THEN /\ pc' = "parse_macos_ps_csv"
            /\ UNCHANGED <<i, header_found, column_header_found, current_sample,
                           samples, invoked, result, exc>>
       ELSE /\ StartLoop("pidstat_loop", "pidstat_text")
            /\ UNCHANGED <<result, exc>>
    /\ UNCHANGED <<input, calls, args, main_result, col, summary>>

SetPidstat(r) ==
    /\ header_found' = r.header_found
    /\ samples' = r.samples

PidstatLine ==
    /\ pc = "pidstat_loop"
    /\ i <= Len(lines)
    /\ SetPidstat(PidstatStep(header_found, samples, process_name, lines[i]))
    /\ i' = i + 1
    /\ UNCHANGED <<input, calls, args, main_result, pc, column_header_found, current_sample, col, result, exc,
                   invoked, summary>>

PidstatReturn ==
    /\ pc = "pidstat_loop"
    /\ i > Len(lines)
    /\ Return(samples)
    /\ UNCHANGED <<input, calls, args, main_result, i, header_found, column_header_found, current_sample,
                   samples, col, invoked, summary>>

\* the caller calls the same parser again on the unmodified file
CallAgain ==
    /\ pc \in {"returned", "raised"}
    /\ calls = <<>>
    /\ Len(lines) <= MaxRepeatLines
    /\ calls' = <<[pc |-> pc, result |-> result, exc |-> exc]>>
    /\ pc' = entry
    /\ result' = <<>>
    /\ exc' = "none"
    /\ invoked' = <<>>
    /\ UNCHANGED <<input, args, main_result, i, header_found, column_header_found,
                   current_sample, samples, col, summary>>

\* an exception of json.load in a slot ends main
SetSlotAborting(r, key) ==
    IF r.raised = "none"
    THEN /\ result' = JsonGet(r.val, key)
         /\ pc' = "slot_json"
    ELSE /\ pc' = "main_crashed"
         /\ UNCHANGED result

\* the slot takes the array of the envelope; an exception of json.load is
\* caught and leaves the slot as it is
SetSlot(r, key) ==
    IF r.raised = "none"
    THEN /\ result' = JsonGet(r.val, key)
         /\ pc' = "slot_json"
    ELSE /\ pc' = "slot_failed"
         /\ UNCHANGED result

\* the file of a slot whose text is given: a JSON envelope when its first
\* character is "{", a raw log for the text parser otherwise
SlotFrom(text) ==
    IF FirstChar(text) = "{" THEN SetSlot(JsonLoad(text), SlotKey(entry))
    ELSE /\ pc' = entry
         /\ UNCHANGED result

\* the fallback to the raw logs when the monitoring file cannot be opened
FromMonitoringJsonIfPresent(a) == a.monitoring_json.given /\ a.monitoring_json.exists

\* if args.monitoring_json
FromMonitoringJson(a) == a.monitoring_json.given

\* both arrays are taken from the monitoring data; an exception of open()
\* or json.load is caught and leaves both as they are
SetMonitoring(r) ==
    IF r.raised = "none"
    THEN /\ result' = JsonGet(r.val, "vmstat")
         /\ main_result' = ("pidstat" :> JsonGet(r.val, "pidstat"))
         /\ pc' = "slot_json"
    ELSE /\ pc' = "slot_failed"
         /\ UNCHANGED <<result, main_result>>

\* main with --monitoring-json: the raw logs are not looked at
MainMonitoringJson ==
    /\ pc = "main"
    /\ FromMonitoringJson(args)
    /\ IF ~args.monitoring_json.exists
       THEN SetMonitoring(Raise("FileNotFoundError"))
       ELSE SetMonitoring(JsonLoad(FileText(args.monitoring_json.lines)))
    /\ UNCHANGED <<input, calls, args, i, header_found, column_header_found,
                   current_sample, samples, col, exc, invoked, summary>>

\* main, the slot of --vmstat or --pidstat: open() of a missing file raises
\* and the exception is caught
MainSlot ==
    /\ pc = "main"
    /\ ~FromMonitoringJson(args)
    /\ IF ~exists
       THEN /\ pc' = "slot_failed"
            /\ UNCHANGED result
       ELSE SlotFrom(FileText(lines))
    /\ UNCHANGED <<input, calls, args, main_result, i, header_found, column_header_found,
                   current_sample, samples, col, exc, invoked, summary>>

\* what main has in result["vmstat"] / result["pidstat"]: the parser's
\* return value or the array of the envelope, or the empty list when the
\* call or json.load raised
SlotSamples == IF pc \in {"returned", "slot_json"} THEN result ELSE <<>>

\* main goes on from the vmstat slot to the pidstat slot: the vmstat array
\* is kept in the result dict, and the locals of the call that is over are
\* gone
MainPidstatSlot ==
    /\ pc \in {"returned", "raised", "slot_json", "slot_failed"}
    /\ calls = <<>>
    /\ entry = "parse_vmstat_log"
    /\ ~FromMonitoringJson(args)
    /\ args.pidstat.given
    /\ main_result' = ("vmstat" :> SlotSamples)
    /\ entry' = "parse_pidstat_log"
    /\ exists' = args.pidstat.exists
    /\ lines' = args.pidstat.lines
    /\ args' = [args EXCEPT !.pidstat = NoArg]
    /\ pc' = "main"
    /\ result' = <<>>
    /\ exc' = "none"
    /\ invoked' = <<>>
    /\ i' = 1
    /\ header_found' = FALSE
    /\ column_header_found' = FALSE
    /\ current_sample' = EmptyDict
    /\ samples' = <<>>
    /\ col' = NoColumns
    /\ UNCHANGED <<process_name, summary, calls>>

\* result[key] when main comes to its summaries
SamplesOf(key) ==
    IF key = SlotKey(entry) THEN SlotSamples ELSE JsonGet(main_result, key)

\* the summary main computes for the slot it called the parser for
SlotSummary(e, ss) ==
    IF ss = <<>> THEN Ok(NoSummary)
    ELSE IF e = "parse_vmstat_log" THEN VmstatSummary(ss)
    ELSE PidstatSummary(ss)

\* the summary is stored, or its exception leaves main
SetSummary(r) ==
    IF r.raised = "none"
    THEN /\ summary' = r.val
         /\ pc' = "main_done"
         /\ UNCHANGED exc
    ELSE /\ pc' = "main_crashed"
         /\ exc' = r.raised
         /\ UNCHANGED summary

\* the summary of the slot of entry, or the exception that leaves main: the
\* vmstat summary rv is computed before the pidstat summary rp
EntrySummary(rv, rp) ==
    IF rv.raised # "none" THEN rv
    ELSE IF rp.raised # "none" THEN rp
    ELSE IF entry = "parse_vmstat_log" THEN rv
    ELSE rp

\* the result dict with the summary r of the other slot, when there is one
WithSummary(d, key, r) ==
    IF r.raised # "none" \/ r.val = NoSummary THEN d
    ELSE (key :> r.val) @@ d

\* the result dict after the summaries: the vmstat summary is stored before
\* the pidstat summary is computed
OtherSummary(rv, rp) ==
    IF rv.raised # "none" THEN main_result
    ELSE IF entry = "parse_vmstat_log" THEN WithSummary(main_result, "pidstat_summary", rp)
    ELSE WithSummary(main_result, "vmstat_summary", rv)

\* main after its slots: both arrays are summarised, the vmstat array first;
\* an exception of a summary is not caught
MainSummary ==
    /\ pc \in {"returned", "raised", "slot_json", "slot_failed"}
    /\ calls = <<>>
    /\ entry \in {"parse_vmstat_log", "parse_pidstat_log"}
    /\ FromMonitoringJson(args) \/ ~args.pidstat.given
    /\ SetSummary(EntrySummary(SlotSummary("parse_vmstat_log", SamplesOf("vmstat")),
                               SlotSummary("parse_pidstat_log", SamplesOf("pidstat"))))
    /\ main_result' = OtherSummary(SlotSummary("parse_vmstat_log", SamplesOf("vmstat")),
                                   SlotSummary("parse_pidstat_log", SamplesOf("pidstat")))
    /\ UNCHANGED <<input, calls, args, i, header_found, column_header_found,
                   current_sample, samples, col, result, invoked>>

Next ==
    \/ ParseVmstatLog \/ VmstatLine \/ VmstatReturn
    \/ TopOpen \/ TopLine \/ TopReturn
    \/ IostatOpen \/ IostatLine \/ IostatReturn
    \/ CsvOpen \/ CsvRow \/ CsvReturn
    \/ ParsePidstatLog \/ PidstatLine \/ PidstatReturn
    \/ CallAgain
    \/ MainMonitoringJson \/ MainSlot \/ MainPidstatSlot \/ MainSummary

Spec == Init /\ [][Next]_vars

(* ------------------------------------------------------------------ *)
(* Properties                                                          *)
(* ------------------------------------------------------------------ *)

\* the line the current loop iteration reads, stripped, and its tokens
CurLine == Strip(lines[i])

CurParts == Split(CurLine)

LastOf(seq) == seq[Len(seq)]

\* C1: for every readable file, however malformed, no parser lets an
\* exception escape to its caller: a call never ends raised.
C1_NoExceptionEscapes == exists => pc # "raised"

\* C2: each of the five parsers, called with a missing file or with an empty
\* file, returns the empty sequence and raises nothing.
C2_MissingOrEmptyGivesEmpty ==
    (~exists \/ lines = <<>>) =>
        /\ pc # "raised"
        /\ pc = "returned" => result = <<>>

\* C3: the pipeline never crashes after parsing: the summary of main
\* completes for every sample sequence a parser of the slot returns, that
\* is, every sample returned for the vmstat slot carries cpu_us_pct,
\* cpu_sy_pct, cpu_id_pct and memory_free_kb and every sample returned for
\* the pidstat slot carries cpu_total_pct.
C3_SummaryNeverCrashes ==
    /\ pc # "main_crashed"
    /\ (pc = "returned" /\ entry = "parse_vmstat_log") =>
           \A k \in DOMAIN result :
               {"cpu_us_pct", "cpu_sy_pct", "cpu_id_pct", "memory_free_kb"}
                   \subseteq DOMAIN result[k]
    /\ (pc = "returned" /\ entry = "parse_pidstat_log") =>
           \A k \in DOMAIN result : "cpu_total_pct" \in DOMAIN result[k]

\* the vmstat columns r b swpd free buff cache si so bi bo in cs us sy id wa
\* st gu as schema fields
VmstatSchema ==
    <<"procs_r", "procs_b", "memory_swpd_kb", "memory_free_kb", "memory_buff_kb",
      "memory_cache_kb", "swap_si_kb", "swap_so_kb", "io_bi_kb", "io_bo_kb",
      "system_in", "system_cs", "cpu_us_pct", "cpu_sy_pct", "cpu_id_pct",
      "cpu_wa_pct", "cpu_st_pct", "cpu_gu_pct">>

\* a plain decimal: digits, or digits.digits
IsPlainDecimal(t) ==
    \/ IsDigit(t)
    \/ \E d \in 2..(Len(t) - 1) :
           /\ Ch(t, d) = "."
           /\ IsDigit(SubSeq(t, 1, d - 1))
           /\ IsDigit(SubSeq(t, d + 1, Len(t)))

\* a well-formed vmstat row: counters in the first 12 columns, percentages
\* in the others
WellFormedRow(parts) ==
    \A k \in DOMAIN parts :
        IF k <= 12 THEN IsDigit(parts[k]) ELSE IsPlainDecimal(parts[k])

\* the number a well-formed token of column k denotes
ColumnValue(parts, k) ==
    IF k <= 12 THEN DecimalValue(parts[k]) ELSE PyFloat(parts[k]).val

\* token k under the k-th schema field, for the first 17 columns and for
\* the 18th when there is one
RowInSchemaOrder(parts) ==
    [name \in {VmstatSchema[k] : k \in 1..(IF Len(parts) >= 18 THEN 18 ELSE 17)} |->
        ColumnValue(parts, CHOOSE k \in 1..18 : VmstatSchema[k] = name)]

\* C4: once the vmstat parser is reading data, a well-formed line of at
\* least 17 numeric tokens yields exactly one sample, token k under the k-th
\* schema field and cpu_gu_pct exactly when there is an 18th token; a line
\* of 16 or fewer tokens yields no sample.
C4_VmstatColumnOrder ==
    [][(pc = "vmstat_loop" /\ i <= Len(lines) /\ header_found) =>
          /\ (Len(CurParts) >= 17 /\ WellFormedRow(CurParts)) =>
                 samples' = Append(samples, RowInSchemaOrder(CurParts))
          /\ Len(CurParts) <= 16 => samples' = samples]_vars

\* C4 witness: a row of 18 tokens has been read and its sample has cpu_gu_pct
C4_Witness ==
    /\ pc = "vmstat_loop" /\ i = 3
    /\ lines[2] = VmstatRow18
    /\ Len(samples) = 1 /\ "cpu_gu_pct" \in DOMAIN samples[1]

\* the seven values the example row is documented to give
ExampleRowValues(s) ==
    /\ s.procs_r = 2 /\ s.memory_free_kb = 102400
    /\ s.cpu_us_pct = Fin(15 * Scale) /\ s.cpu_sy_pct = Fin(5 * Scale)
    /\ s.cpu_id_pct = Fin(78 * Scale) /\ s.cpu_wa_pct = Fin(2 * Scale)
    /\ s.cpu_st_pct = Fin(0)

\* C5 as stated: the vmstat parser applied to an input consisting of the
\* single line "2 0 0 102400 20480 512000 0 0 5 10 100 200 15.0 5.0 78.0 2.0
\* 0.0" returns one sample with procs_r=2, memory_free_kb=102400,
\* cpu_us_pct=15.0, cpu_sy_pct=5.0, cpu_id_pct=78.0, cpu_wa_pct=2.0,
\* cpu_st_pct=0.0.
C5_SingleLineInput ==
    (entry = "parse_vmstat_log" /\ exists /\ lines = <<VmstatRow17>>
     /\ pc = "returned") =>
        Len(result) = 1 /\ ExampleRowValues(result[1])

\* C5 amended: applied to an input consisting of a vmstat header line (a
\* line starting with "procs" or "r") followed by that line, the vmstat
\* parser returns one sample with those seven values.
C5_HeaderThenLine ==
    (entry = "parse_vmstat_log" /\ exists /\ Len(lines) = 2
     /\ (StartsWith(Strip(lines[1]), "procs") \/ StartsWith(Strip(lines[1]), "r"))
     /\ lines[2] = VmstatRow17 /\ pc = "returned") =>
        Len(result) = 1 /\ ExampleRowValues(result[1])

\* C5 witness: the header and the example row have been parsed
C5_Witness ==
    /\ entry = "parse_vmstat_log" /\ pc = "returned"
    /\ lines = <<VmstatHeader2, VmstatRow17>>
    /\ Len(result) = 1

\* a line the parser in READING_DATA takes for a data row with enough tokens
VmstatCandidate ==
    /\ pc = "vmstat_loop" /\ i <= Len(lines) /\ header_found
    /\ ~StartsWith(CurLine, "procs") /\ ~StartsWith(CurLine, "r")
    /\ Len(CurParts) >= 17

IostatCandidate ==
    /\ pc = "iostat_loop" /\ i <= Len(lines) /\ header_found /\ column_header_found
    /\ ~(Contains(Lower(CurLine), "cpu") /\ Contains(Lower(CurLine), "load average"))
    /\ ~((Contains(CurLine, "KB/t") \/ Contains(CurLine, "tps"))
         /\ (Contains(CurLine, "us") \/ Contains(CurLine, "sy")))
    /\ Len(CurParts) >= 6

PidstatCandidate ==
    /\ pc = "pidstat_loop" /\ i <= Len(lines) /\ header_found
    /\ ~(Contains(CurLine, "PID") /\ Contains(CurLine, "CPU"))
    /\ Contains(Lower(CurLine), Lower(process_name))
    /\ Len(CurParts) >= 8

CsvCandidate ==
    /\ pc = "csv_loop" /\ CsvLineNo <= Len(lines)
    /\ Len(CsvRowOf(lines[CsvLineNo])) > Max3(col.ts, col.cpu, col.pid)

\* the new sample has 0 / 0.0 where the vmstat token cannot be parsed
VmstatZeroWhereUnparsable(parts, s) ==
    \A k \in 1..17 :
        /\ (k <= 12 /\ ~IsDigit(parts[k])) => s[VmstatSchema[k]] = 0
        /\ (k > 12 /\ PyFloat(parts[k]).raised # "none") => s[VmstatSchema[k]] = Fin(0)

\* C6: in every parser a data line or row that passes the token-count check
\* still yields a sample when one of its numeric fields cannot be parsed,
\* with that field set to 0 or 0.0.
C6_UnparsableCoerced ==
    [][/\ VmstatCandidate =>
            /\ Len(samples') = Len(samples) + 1
            /\ VmstatZeroWhereUnparsable(CurParts, LastOf(samples'))
       /\ (IostatCandidate \/ PidstatCandidate \/ CsvCandidate) =>
            (pc' = pc /\ Len(samples') = Len(samples) + 1)]_vars

\* C7: at the end of the file the macOS top parser emits an accumulator that
\* holds cpu_us_pct as the final sample; when the last line is a matching
\* "CPU usage: X% user, Y% sys, Z% idle" line, exactly one sample is emitted
\* at the end of the file and it has cpu_us_pct=X, cpu_sy_pct=Y, cpu_id_pct=Z.
C7_TopFlushAtEOF ==
    [][(pc = "top_loop" /\ i > Len(lines)) =>
          /\ pc' = "returned"
          /\ HasKey(current_sample, "cpu_us_pct") =>
                 result' = Append(samples, current_sample)
          /\ (lines # <<>> /\ Contains(Strip(LastOf(lines)), "CPU usage:")
              /\ CpuRegex(Strip(LastOf(lines))).matched) =>
                 /\ Len(result') = Len(samples) + 1
                 /\ LastOf(result').cpu_us_pct = PyFloat(CpuRegex(Strip(LastOf(lines))).g1).val
                 /\ LastOf(result').cpu_sy_pct = PyFloat(CpuRegex(Strip(LastOf(lines))).g2).val
                 /\ LastOf(result').cpu_id_pct = PyFloat(CpuRegex(Strip(LastOf(lines))).g3).val
          /\ lines = <<TopCpuLine>> =>
                 result' = <<[cpu_us_pct |-> Fin(1234), cpu_sy_pct |-> Fin(567),
                              cpu_id_pct |-> Fin(8200), cpu_wa_pct |-> Fin(0),
                              cpu_st_pct |-> Fin(0)]>>]_vars

\* C7 witness: the one-line file of the example has been parsed into one sample
C7_Witness ==
    /\ entry = "parse_macos_top_log" /\ pc = "returned"
    /\ lines = <<TopCpuLine>>
    /\ Len(result) = 1 /\ result[1].cpu_us_pct = Fin(1234)

\* C8: in the pidstat text parser, after the header has been seen, a line is
\* retained for parsing exactly when the process name occurs in it as a
\* case-insensitive substring, and no sample comes from a line without it:
\* filter "Foo" retains "... foobar" and excludes "... Bar".
C8_ProcessNameFilter ==
    [][(/\ pc = "pidstat_loop" /\ i <= Len(lines) /\ header_found
        /\ CurLine # ""
        /\ ~(Contains(CurLine, "PID") /\ Contains(CurLine, "CPU"))) =>
          /\ samples' # samples => Contains(Lower(CurLine), Lower(process_name))
          /\ (Len(CurParts) >= 8 /\ PidstatSample(CurParts).raised = "none") =>
                 (Contains(Lower(CurLine), Lower(process_name))
                    <=> samples' = Append(samples, PidstatSample(CurParts).val))
          /\ (process_name = "Foo" /\ lines[i] = PidstatRowFoo) =>
                 Len(samples') = Len(samples) + 1
          /\ (process_name = "Foo" /\ lines[i] = PidstatRowBar) =>
                 samples' = samples]_vars

\* C8 witness: with the filter "Foo" the line of foobar has given a sample
\* and the line of Bar has given none
C8_Witness ==
    /\ pc = "pidstat_loop" /\ process_name = "Foo" /\ i = 4
    /\ lines = <<PidstatHeader, PidstatRowFoo, PidstatRowBar>>
    /\ Len(samples) = 1 /\ samples[1].pid = 123

\* C9: parse_pidstat_log returns the result of parse_macos_ps_csv exactly
\* when the first line contains a comma and neither "PID" nor "Average"; in
\* every other case the text state machine runs and the CSV parser is not
\* invoked.
C9_CsvDelegation ==
    (entry = "parse_pidstat_log" /\ exists /\ pc = "returned") =>
        IF /\ Contains(FirstLine(lines), ",")
           /\ ~Contains(FirstLine(lines), "PID")
           /\ ~Contains(FirstLine(lines), "Average")
        THEN invoked = <<"macos_ps_csv">>
        ELSE invoked = <<"pidstat_text">>

\* the lines the sniffer looks at
Leading5(ls) == SubSeq(ls, 1, IF Len(ls) < 5 THEN Len(ls) ELSE 5)

\* the parser the sniffing rules name for a file
SniffedParser(ls) ==
    IF \E k \in DOMAIN Leading5(ls) :
           Contains(ls[k], "CPU usage:") \/ Contains(ls[k], "PhysMem:")
    THEN "macos_top"
    ELSE IF \E k \in DOMAIN Leading5(ls) :
           \/ Contains(Lower(ls[k]), "cpu") /\ Contains(Lower(ls[k]), "load average")
           \/ Contains(ls[k], "KB/t") /\ (Contains(ls[k], "us") \/ Contains(ls[k], "sy"))
    THEN "macos_iostat"
    ELSE "linux_vmstat"

\* C10: the vmstat-slot sniffer looks only at the first 5 lines and
\* dispatches in a fixed priority order, macOS top, then macOS iostat, then
\* linux vmstat; the returned sequence is the result of exactly that parser.
C10_SniffDispatch ==
    (entry = "parse_vmstat_log" /\ exists /\ pc = "returned") =>
        /\ invoked = <<SniffedParser(lines)>>
        /\ result = IF SniffedParser(lines) = "macos_top"
                    THEN TopAtEOF(current_sample, samples)
                    ELSE samples

\* C10 witness: a "CPU usage:" line in sixth place has not been sniffed and
\* the file has gone through the linux vmstat parser
C10_Witness ==
    /\ entry = "parse_vmstat_log" /\ pc = "returned"
    /\ Len(lines) = 6 /\ lines[6] = TopCpuLine
    /\ invoked = <<"linux_vmstat">>

\* a header line of vmstat output: it starts with "procs" or its first
\* token is "r"
IsVmstatHeaderLine(line) ==
    \/ StartsWith(Strip(line), "procs")
    \/ (Split(line) # <<>> /\ Split(line)[1] = "r")

\* a section-header line of iostat output
IsIostatSectionLine(line) ==
    Contains(Lower(line), "cpu") /\ Contains(Lower(line), "load average")

NoLine(ls, P(_)) == \A k \in DOMAIN ls : ~P(ls[k])

HasCpuUsage(line) == Contains(line, "CPU usage:")

\* C11: a file the sniffer routes to a parser whose format it does not have
\* gives the empty sequence: routed to macOS iostat without any section
\* header in it, routed to macOS top without any "CPU usage:" line in it, or
\* defaulted to linux vmstat without any vmstat header line in it.
C11_MisroutedGivesEmpty ==
    (entry = "parse_vmstat_log" /\ exists /\ pc = "returned") =>
        /\ (invoked = <<"macos_iostat">> /\ NoLine(lines, IsIostatSectionLine))
               => result = <<>>
        /\ (invoked = <<"macos_top">> /\ NoLine(lines, HasCpuUsage))
               => result = <<>>
        /\ (invoked = <<"linux_vmstat">> /\ NoLine(lines, IsVmstatHeaderLine))
               => result = <<>>

\* the samples written in the two JSON envelopes of the model
JsonVmstatSamples ==
    <<[cpu_us_pct |-> Fin(150), cpu_sy_pct |-> Fin(250), cpu_id_pct |-> Fin(9600),
       memory_free_kb |-> 2048]>>

JsonPidstatSamples ==
    <<[pid |-> 7, cpu_total_pct |-> Fin(1000)], [pid |-> 7, cpu_total_pct |-> Fin(3000)]>>

\* the slot after the step of main that fills it
SlotAfter == IF pc' \in {"returned", "slot_json"} THEN result' ELSE <<>>

\* C12: in main, a slot file whose first character is "{" fills the slot
\* from the "vmstat" / "pidstat" array of its JSON object, with the empty
\* sequence when the key is absent, and no text parser is invoked; invalid
\* JSON leaves the slot empty and raises nothing; any other file goes to
\* the text parser of the slot.
C12_JsonPassthrough ==
    [][(pc = "main" /\ exists /\ ~args.monitoring_json.given) =>
          IF lines # <<>> /\ StartsWith(lines[1], "{")
          THEN /\ pc' \in {"slot_json", "slot_failed"}
               /\ invoked' = <<>> /\ exc' = "none"
               /\ JsonLoad(FileText(lines)).raised # "none" => SlotAfter = <<>>
               /\ lines[1] = JsonNotJson => SlotAfter = <<>>
               /\ lines = <<JsonEmptyObject>> => (pc' = "slot_json" /\ SlotAfter = <<>>)
               /\ lines = <<JsonOpenArray, JsonCloseArray>> =>
                      (pc' = "slot_json" /\ SlotAfter = <<>>)
               /\ lines = <<JsonVmstatDoc>> =>
                      /\ pc' = "slot_json"
                      /\ SlotAfter = IF entry = "parse_vmstat_log"
                                     THEN JsonVmstatSamples ELSE <<>>
               /\ lines = <<JsonPidstatDoc>> =>
                      /\ pc' = "slot_json"
                      /\ SlotAfter = IF entry = "parse_pidstat_log"
                                     THEN JsonPidstatSamples ELSE <<>>
          ELSE pc' = entry /\ invoked' = <<>> /\ result' = <<>>]_vars

\* C12 witness: the vmstat slot holds the sample of the envelope and no
\* parser has been invoked
C12_Witness ==
    /\ pc = "slot_json" /\ entry = "parse_vmstat_log"
    /\ lines = <<JsonVmstatDoc>>
    /\ result = JsonVmstatSamples /\ invoked = <<>>

\* main is over: the summary has been stored, or its exception has left main
MainOver == pc \in {"main_done", "main_crashed"}

\* C13: when main is over, the slot has a summary record exactly when its
\* sample sequence is not empty (over an empty sequence there is no summary
\* at all), and no division by zero has occurred.
C13_SummaryIffNonEmpty ==
    MainOver =>
        /\ (summary # NoSummary) <=> (result # <<>>)
        /\ exc # "ZeroDivisionError"

\* the total of the finite values of a field over the first k samples, in
\* 1/Scale units
RECURSIVE TotalOfFirst(_, _, _)
TotalOfFirst(ss, key, k) ==
    IF k = 0 THEN 0 ELSE TotalOfFirst(ss, key, k - 1) + ss[k][key].n

AllFinite(ss, key) == \A k \in DOMAIN ss : ss[k][key].k = "fin"

\* avg is the mean of a field: total / count when every value is finite, and
\* not a finite number otherwise
IsMeanOf(avg, ss, key) ==
    IF AllFinite(ss, key)
    THEN avg = [k |-> "fin", n |-> TotalOfFirst(ss, key, Len(ss)), d |-> Len(ss)]
    ELSE avg.k # "fin"

\* peak is a value of the field that no value of the field exceeds
IsGreatestOf(peak, ss, key) ==
    /\ \E k \in DOMAIN ss : ss[k][key] = peak
    /\ \A k \in DOMAIN ss : ~FGt(ss[k][key], peak)

IsLeastOf(low, ss, key) ==
    /\ \E k \in DOMAIN ss : ss[k][key] = low
    /\ \A k \in DOMAIN ss : low <= ss[k][key]

\* C14: the summary main stores for a non-empty sample sequence has the
\* reference aggregates: sample_count is the length; for pidstat
\* avg_cpu_total_pct is sum / count and peak_cpu_total_pct the maximum (so
\* [10, 30] gives 20.0, 30.0 and 2); for vmstat the three averages are sum /
\* count and peak_memory_free_kb is the minimum of memory_free_kb.
C14_SummaryAggregates ==
    (pc = "main_done" /\ result # <<>>) =>
        /\ summary.sample_count = Len(result)
        /\ entry = "parse_pidstat_log" =>
               /\ IsMeanOf(summary.avg_cpu_total_pct, result, "cpu_total_pct")
               /\ IsGreatestOf(summary.peak_cpu_total_pct, result, "cpu_total_pct")
               /\ DOMAIN summary =
                      {"sample_count", "avg_cpu_total_pct", "peak_cpu_total_pct"}
        /\ (entry = "parse_pidstat_log" /\ lines = <<JsonPidstatDoc>>) =>
               summary = [sample_count |-> 2,
                          avg_cpu_total_pct |-> [k |-> "fin", n |-> 20 * Scale * 2, d |-> 2],
                          peak_cpu_total_pct |-> Fin(30 * Scale)]
        /\ entry = "parse_vmstat_log" =>
               /\ IsMeanOf(summary.avg_cpu_us_pct, result, "cpu_us_pct")
               /\ IsMeanOf(summary.avg_cpu_sy_pct, result, "cpu_sy_pct")
               /\ IsMeanOf(summary.avg_cpu_id_pct, result, "cpu_id_pct")
               /\ IsLeastOf(summary.peak_memory_free_kb, result, "memory_free_kb")
               /\ DOMAIN summary =
                      {"sample_count", "avg_cpu_us_pct", "avg_cpu_sy_pct",
                       "avg_cpu_id_pct", "peak_memory_free_kb"}

\* C14 witness: a vmstat summary over two samples whose free memory differs;
\* the peak is the smaller one
C14_Witness ==
    /\ pc = "main_done" /\ entry = "parse_vmstat_log"
    /\ lines = <<VmstatHeader2, VmstatRow17, VmstatRow18>>
    /\ Len(result) = 2
    /\ summary.peak_memory_free_kb = 2048
    /\ summary.avg_cpu_us_pct = [k |-> "fin", n |-> 2000, d |-> 2]

Loops == {"vmstat_loop", "top_loop", "iostat_loop", "csv_loop", "pidstat_loop"}

\* C15: a second call of a parser on the same unmodified file ends as the
\* first did, with an identical sample sequence, and every call enters its
\* loop in the initial parser state: no flag, accumulator or sample of an
\* earlier call is left.
C15_Idempotent ==
    /\ (calls # <<>> /\ pc \in {"returned", "raised"}) =>
           calls[1] = [pc |-> pc, result |-> result, exc |-> exc]
    /\ (pc \in Loops /\ i = 1) =>
           /\ ~header_found /\ ~column_header_found
           /\ current_sample = EmptyDict /\ samples = <<>>

\* C15 witness: the second call of the macOS top parser has returned the
\* sample the first call returned
C15_Witness ==
    /\ entry = "parse_macos_top_log" /\ pc = "returned"
    /\ lines = <<TopCpuLine, TopCpuLine2>>
    /\ calls # <<>> /\ Len(calls[1].result) = 1 /\ result = calls[1].result

\* the vmstat parser is about to read a line
VmstatReads == pc = "vmstat_loop" /\ i <= Len(lines)

\* C16: the vmstat parser is a two-state machine SEEKING_HEADER ->
\* READING_DATA: a line read while the header has not been found emits no
\* sample, so data lines before the first header are dropped, and once the
\* header has been found no later line takes the parser back.
C16_VmstatTwoStates ==
    [][/\ (VmstatReads /\ ~header_found) => (samples = <<>> /\ samples' = <<>>)
       /\ (VmstatReads /\ header_found) => (header_found' /\ pc' = "vmstat_loop")
       /\ (pc = "vmstat_loop" /\ i > Len(lines)
           /\ lines = <<VmstatRow17, VmstatHeader2, VmstatRow18>>) =>
              (Len(result') = 1 /\ "cpu_gu_pct" \in DOMAIN result'[1])]_vars

\* C16 witness: a data row before the header was dropped, the row after the
\* header was parsed, and the parser is still reading data
C16_Witness ==
    /\ pc = "vmstat_loop" /\ header_found /\ i = 4
    /\ lines = <<VmstatRow17, VmstatHeader2, VmstatRow18>>
    /\ Len(samples) = 1 /\ "cpu_gu_pct" \in DOMAIN samples[1]

\* C17: the vmstat parser treats a non-blank line as a header (sets
\* header-found, emits no sample for it) exactly when the line starts with
\* "procs" or its first token is "r"; every other non-blank line is, in
\* READING_DATA, a candidate data row and changes no flag.
C17_VmstatHeaderLine ==
    [][(VmstatReads /\ CurLine # "") =>
          IF IsVmstatHeaderLine(lines[i])
          THEN header_found' /\ samples' = samples
          ELSE /\ header_found' = header_found
               /\ samples' = IF header_found THEN VmstatData(samples, CurParts)
                             ELSE samples]_vars

\* the macOS top parser is about to read a line
TopReads == pc = "top_loop" /\ i <= Len(lines)

\* a sample of the macOS top parser with its five CPU fields
HasTopCpuFields(s) ==
    /\ {"cpu_us_pct", "cpu_sy_pct", "cpu_id_pct", "cpu_wa_pct", "cpu_st_pct"}
           \subseteq DOMAIN s
    /\ s.cpu_wa_pct = Fin(0) /\ s.cpu_st_pct = Fin(0)

\* C18: in the macOS top parser a blank line emits the accumulator as one
\* sample and empties it exactly when the accumulator holds cpu_us_pct, and
\* emits nothing otherwise; so every emitted sample has cpu_us_pct,
\* cpu_sy_pct, cpu_id_pct and cpu_wa_pct = cpu_st_pct = 0.0, and a blank
\* line that follows a blank line emits nothing.
C18_TopBlankLine ==
    [][/\ (TopReads /\ CurLine = "") =>
            IF HasKey(current_sample, "cpu_us_pct")
            THEN /\ samples' = Append(samples, current_sample)
                 /\ current_sample' = EmptyDict
            ELSE samples' = samples
       /\ (TopReads /\ CurLine = "" /\ i > 1 /\ Strip(lines[i - 1]) = "") =>
            samples' = samples
       /\ pc = "top_loop" => \A k \in DOMAIN samples : HasTopCpuFields(samples[k])
       /\ (pc = "top_loop" /\ pc' = "returned") =>
            \A k \in DOMAIN result' : HasTopCpuFields(result'[k])]_vars

\* C18 witness: two blank lines after a CPU line have emitted one sample
C18_Witness ==
    /\ pc = "top_loop" /\ i = 4
    /\ lines = <<TopCpuLine, "", "">>
    /\ Len(samples) = 1 /\ current_sample = EmptyDict

\* the line read is a data row the vmstat parser discards: too few tokens,
\* or a token whose conversion fails
VmstatRejects ==
    /\ VmstatReads /\ header_found /\ CurLine # ""
    /\ ~StartsWith(CurLine, "procs") /\ ~StartsWith(CurLine, "r")
    /\ (Len(CurParts) < 17 \/ VmstatSample(CurParts).raised # "none")

\* a "CPU usage:" or "PhysMem:" line whose text does not match the pattern
TopRejects ==
    /\ TopReads
    /\ \/ Contains(CurLine, "CPU usage:") /\ ~CpuRegex(CurLine).matched
       \/ /\ ~Contains(CurLine, "CPU usage:") /\ Contains(CurLine, "PhysMem:")
          /\ ~MemRegex(CurLine).matched

IostatRejects ==
    /\ pc = "iostat_loop" /\ i <= Len(lines)
    /\ header_found /\ column_header_found /\ CurLine # ""
    /\ ~IsIostatSectionLine(CurLine)
    /\ ~((Contains(CurLine, "KB/t") \/ Contains(CurLine, "tps"))
         /\ (Contains(CurLine, "us") \/ Contains(CurLine, "sy")))
    /\ (Len(CurParts) < 6 \/ IostatSample(CurParts).raised # "none")

PidstatRejects ==
    /\ pc = "pidstat_loop" /\ i <= Len(lines) /\ header_found
    /\ ~(Contains(CurLine, "PID") /\ Contains(CurLine, "CPU"))
    /\ Contains(Lower(CurLine), Lower(process_name))
    /\ (Len(CurParts) < 8 \/ PidstatSample(CurParts).raised # "none")

\* a CSV row that is too short or whose coercion fails
CsvRejects ==
    /\ pc = "csv_loop" /\ CsvLineNo <= Len(lines)
    /\ \/ Len(CsvRowOf(lines[CsvLineNo])) <= Max3(col.ts, col.cpu, col.pid)
       \/ CsvSample(CsvRowOf(lines[CsvLineNo]), col).raised # "none"

\* C19: in every parser a line that is discarded (too few tokens, a "CPU
\* usage:" or "PhysMem:" line that does not match, a row whose coercion
\* fails) changes neither the header flags, nor the accumulator, nor the
\* samples emitted so far, and the parser goes on to the next line.
C19_RejectedLineIsolated ==
    [][(VmstatRejects \/ TopRejects \/ IostatRejects \/ PidstatRejects \/ CsvRejects) =>
          /\ pc' = pc
          /\ UNCHANGED <<header_found, column_header_found, current_sample, samples>>]_vars

\* the macOS iostat parser is about to read a line
IostatReads == pc = "iostat_loop" /\ i <= Len(lines)

\* a column-header line of iostat output that is no section header
IsIostatColumnLine(line) ==
    /\ Contains(line, "KB/t") \/ Contains(line, "tps")
    /\ Contains(line, "us") \/ Contains(line, "sy")
    /\ ~IsIostatSectionLine(line)

\* C20: the macOS iostat parser is a three-state machine
\* SEEKING_SECTION_HEADER -> SEEKING_COLUMN_HEADER -> READING_DATA: a column
\* header is recognised only after a section header has been seen, a column
\* header before any section header does not advance the state, no sample
\* is emitted before READING_DATA, and the state never moves backwards.
C20_IostatThreeStates ==
    [][/\ pc = "iostat_loop" => (column_header_found => header_found)
       /\ (IostatReads /\ ~header_found /\ IsIostatColumnLine(CurLine)) =>
              (~header_found' /\ ~column_header_found')
       /\ (IostatReads /\ header_found /\ IsIostatColumnLine(CurLine)) =>
              column_header_found'
       /\ (IostatReads /\ ~(header_found /\ column_header_found)) =>
              (samples = <<>> /\ samples' = <<>>)
       /\ IostatReads =>
              /\ header_found => header_found'
              /\ column_header_found => column_header_found'
              /\ pc' = "iostat_loop"]_vars

\* C20 witness: a column header came before the section header and was not
\* recognised, so the data row after the section header gave no sample
C20_Witness ==
    /\ pc = "iostat_loop" /\ i = 4
    /\ lines = <<IostatColumns, IostatHeader, IostatRow>>
    /\ header_found /\ ~column_header_found /\ samples = <<>>

\* a non-blank line the macOS iostat parser reads in READING_DATA that is
\* neither a section header nor a column header
IostatReadsRow ==
    /\ IostatReads /\ header_found /\ column_header_found /\ CurLine # ""
    /\ ~IsIostatSectionLine(CurLine)
    /\ ~((Contains(CurLine, "KB/t") \/ Contains(CurLine, "tps"))
         /\ (Contains(CurLine, "us") \/ Contains(CurLine, "sy")))

\* the sample of an iostat row: CPU fields from tokens 3, 4, 5 (counted
\* from 0), everything else zero
IostatRowSample(parts, s) ==
    /\ DOMAIN s = {"cpu_us_pct", "cpu_sy_pct", "cpu_id_pct", "cpu_wa_pct",
                   "cpu_st_pct", "memory_free_kb", "memory_swpd_kb",
                   "memory_buff_kb", "memory_cache_kb"}
    /\ s.cpu_us_pct = PyFloat(parts[4]).val
    /\ s.cpu_sy_pct = PyFloat(parts[5]).val
    /\ s.cpu_id_pct = PyFloat(parts[6]).val
    /\ s.cpu_wa_pct = Fin(0) /\ s.cpu_st_pct = Fin(0)
    /\ s.memory_free_kb = 0 /\ s.memory_swpd_kb = 0
    /\ s.memory_buff_kb = 0 /\ s.memory_cache_kb = 0

\* C21: in READING_DATA the macOS iostat parser discards every row with
\* fewer than 6 whitespace tokens and, for every other row, emits a sample
\* with cpu_us_pct, cpu_sy_pct, cpu_id_pct taken from tokens 3, 4, 5
\* (0-indexed), cpu_wa_pct = cpu_st_pct = 0.0 and the four memory fields 0.
C21_IostatDataRow ==
    [][IostatReadsRow =>
          IF Len(CurParts) < 6 THEN samples' = samples
          ELSE /\ Len(samples') = Len(samples) + 1
               /\ SubSeq(samples', 1, Len(samples)) = samples
               /\ IostatRowSample(CurParts, LastOf(samples'))]_vars

\* the cells of the first row, stripped and lower-cased
FirstRowNames == [k \in DOMAIN CsvRowOf(lines[1]) |-> Lower(Strip(CsvRowOf(lines[1])[k]))]

\* the first row has a cell that contains "cpu" or "timestamp"
FirstRowIsHeader ==
    \E k \in DOMAIN FirstRowNames :
        Contains(FirstRowNames[k], "cpu") \/ Contains(FirstRowNames[k], "timestamp")

Named(names, name) == \E k \in DOMAIN names : names[k] = name

\* idx (from 0) is a column named by the first name of the chain that names
\* a column, or the default when none does
ResolvedBy(names, idx, chain, default) ==
    IF \E c \in DOMAIN chain : Named(names, chain[c])
    THEN /\ idx + 1 \in DOMAIN names
         /\ names[idx + 1] = chain[MinOf({c \in DOMAIN chain : Named(names, chain[c])})]
    ELSE idx = default

\* the macOS ps CSV parser is about to read a row
CsvReads == pc = "csv_loop" /\ CsvLineNo <= Len(lines)

\* C22: the macOS ps CSV parser resolves its three column indices from the
\* first row: if a cell of it (stripped, lower-cased) contains "cpu" or
\* "timestamp" the row is a header that gives no sample, timestamp is the
\* column timestamp_epoch_s, else timestamp, else 0, cpu is the column
\* cpu_pct, else %cpu, else cpu, else 1, and pid is the column pid, else 2;
\* otherwise the indices are 0, 1, 2 and the first row is data.  A row that
\* gives a sample has a cell at each of the three indices; shorter rows are
\* discarded.
C22_CsvColumnResolution ==
    [][/\ pc = "csv_loop" =>
            IF FirstRowIsHeader
            THEN /\ col.has_header
                 /\ i = 1 => (samples = <<>> /\ CsvLineNo = 2)
                 /\ ResolvedBy(FirstRowNames, col.ts,
                               <<"timestamp_epoch_s", "timestamp">>, 0)
                 /\ ResolvedBy(FirstRowNames, col.cpu, <<"cpu_pct", "%cpu", "cpu">>, 1)
                 /\ ResolvedBy(FirstRowNames, col.pid, <<"pid">>, 2)
            ELSE /\ ~col.has_header /\ col.ts = 0 /\ col.cpu = 1 /\ col.pid = 2
                 /\ i = 1 => CsvLineNo = 1
       /\ (CsvReads /\ \E idx \in {col.ts, col.cpu, col.pid} :
                           Len(CsvRowOf(lines[CsvLineNo])) <= idx) =>
            (samples' = samples /\ pc' = pc)
       /\ (CsvReads /\ pc' = pc /\ samples' # samples) =>
            /\ Len(CsvRowOf(lines[CsvLineNo])) > Max3(col.ts, col.cpu, col.pid)
            /\ samples' = Append(samples,
                   [pid |-> CsvPid(Strip(CsvRowOf(lines[CsvLineNo])[col.pid + 1])).val,
                    cpu_total_pct |->
                        CsvCpu(Strip(CsvRowOf(lines[CsvLineNo])[col.cpu + 1])).val,
                    timestamp_epoch_s |->
                        CsvTs(Strip(CsvRowOf(lines[CsvLineNo])[col.ts + 1])).val])]_vars

\* C22 witness: under a header that names its columns pid, %cpu, timestamp
\* the row 1700,12.5,123 has given a sample with pid 1700 and timestamp 123
C22_Witness ==
    /\ pc = "csv_loop" /\ i = 2
    /\ lines = <<CsvHeaderAlias, CsvRowGood>>
    /\ col = [has_header |-> TRUE, ts |-> 2, cpu |-> 1, pid |-> 0]
    /\ samples = <<[pid |-> 1700, cpu_total_pct |-> Fin(1250), timestamp_epoch_s |-> 123]>>

\* the pidstat text parser is about to read a line
PidstatReads == pc = "pidstat_loop" /\ i <= Len(lines)

\* a header line of pidstat output
IsPidstatHeaderLine(line) == Contains(line, "PID") /\ Contains(line, "CPU")

\* C23: the pidstat text parser is a two-state machine SEEKING_HEADER ->
\* READING_DATA whose header is any line containing both "PID" and "CPU": no
\* sample is emitted for a line at or before the first such line, even when
\* the line contains the process name and has 8 or more tokens, and once
\* the header has been seen the parser never goes back.
C23_PidstatTwoStates ==
    [][/\ (PidstatReads /\ ~header_found) =>
            /\ samples = <<>> /\ samples' = <<>>
            /\ header_found' <=> IsPidstatHeaderLine(CurLine)
       /\ (PidstatReads /\ header_found) =>
            /\ header_found' /\ pc' = "pidstat_loop"
            /\ IsPidstatHeaderLine(CurLine) => samples' = samples]_vars

\* C23 witness: a line of the process with 8 tokens came before the header
\* and gave no sample; the line after the header gave the only sample
C23_Witness ==
    /\ pc = "pidstat_loop" /\ process_name = "Foo" /\ i = 4 /\ header_found
    /\ lines = <<PidstatRowFoo, PidstatHeader, PidstatRowRss>>
    /\ Len(samples) = 1 /\ samples[1].memory_rss_kb = 20480

\* a line the pidstat text parser reads that has passed the header check and
\* the process-name check
PidstatReadsRow ==
    /\ PidstatReads /\ header_found /\ CurLine # ""
    /\ ~IsPidstatHeaderLine(CurLine)
    /\ Contains(Lower(CurLine), Lower(process_name))

\* the number read from a percentage token: 0.0 unless the token is digits
\* and dots
PidstatPct(t) == IF IsDigit(Replace(t, ".", "")) THEN PyFloat(t).val ELSE Fin(0)

\* s is built from the layout time pid %usr %system %guest %CPU, with
\* memory_rss_kb exactly when token 6 is digits and more than 1000
PidstatFixedLayout(parts, s) ==
    /\ s.pid = (IF IsDigit(parts[2]) THEN DecimalValue(parts[2]) ELSE 0)
    /\ s.cpu_usr_pct = PidstatPct(parts[3])
    /\ s.cpu_system_pct = PidstatPct(parts[4])
    /\ s.cpu_guest_pct = PidstatPct(parts[5])
    /\ s.cpu_total_pct = PidstatPct(parts[6])
    /\ IF IsDigit(parts[7]) /\ DecimalValue(parts[7]) > 1000
       THEN /\ DOMAIN s = {"pid", "cpu_usr_pct", "cpu_system_pct", "cpu_guest_pct",
                           "cpu_total_pct", "memory_rss_kb"}
            /\ s.memory_rss_kb = DecimalValue(parts[7])
       ELSE DOMAIN s = {"pid", "cpu_usr_pct", "cpu_system_pct", "cpu_guest_pct",
                        "cpu_total_pct"}

\* a percentage token of the row is digits and dots and yet no float literal
PidstatRowRaises(parts) ==
    \E k \in 3..6 : IsDigit(Replace(parts[k], ".", "")) /\ PyFloat(parts[k]).raised # "none"

BlockBefore(k) ==
    (MaxOf({0} \cup {j \in 1..(k - 1) : Strip(lines[j]) = ""}) + 1)..(k - 1)

\* the macOS top parser emits its accumulator in this step: at a blank line
\* or at the end of the file
TopEmits ==
    /\ pc = "top_loop" /\ HasKey(current_sample, "cpu_us_pct")
    /\ i <= Len(lines) => CurLine = ""

\* a "PhysMem:" line that sets memory_free_kb to v
SetsFreeMemory(line, v) ==
    /\ ~Contains(line, "CPU usage:") /\ Contains(line, "PhysMem:")
    /\ MemRegex(line).matched /\ v = DecimalValue(MemRegex(line).g1) * 1024

\* a "CPU usage:" line that sets the CPU fields
SetsCpu(line) == Contains(line, "CPU usage:") /\ CpuRegex(line).matched

\* C25: every sample the macOS top parser emits is built from a single
\* blank-line-delimited block: the block that ends where the sample is
\* emitted has the "CPU usage:" line that set its CPU fields, and its
\* memory_free_kb (when present) was set by a "PhysMem:" line of that same
\* block, so a memory reading of a block without a matching CPU line is
\* never carried over a blank line into the sample of a later block.
C25_TopSampleFromOneBlock ==
    [][TopEmits =>
          /\ \E k \in BlockBefore(i) : SetsCpu(Strip(lines[k]))
          /\ HasKey(current_sample, "memory_free_kb") =>
                 \E k \in BlockBefore(i) :
                     SetsFreeMemory(Strip(lines[k]), current_sample.memory_free_kb)]_vars

\* C26: in the macOS ps CSV parser the three resolved column indices
\* (timestamp, cpu, pid) are pairwise distinct for every header row, so no
\* two fields of a sample are read from the same CSV column.
C26_CsvIndicesDistinct ==
    pc = "csv_loop" =>
        /\ col.ts # col.cpu
        /\ col.cpu # col.pid
        /\ col.ts # col.pid

\* a line that starts with "procs" or "r"
StartsAsVmstatHeader(line) == StartsWith(line, "procs") \/ StartsWith(line, "r")

\* the line read is a header line for the parser that reads it, and the
\* parser is in READING_DATA
RepeatedHeader ==
    \/ VmstatReads /\ header_found /\ StartsAsVmstatHeader(CurLine)
    \/ /\ IostatReads /\ header_found /\ column_header_found
       /\ IsIostatSectionLine(CurLine) \/ IsIostatColumnLine(CurLine)
    \/ /\ PidstatReads /\ header_found
       /\ IsPidstatHeaderLine(CurLine)

\* C27: after READING_DATA has been entered a repeated header line never
\* yields a sample and never changes the parser state: in the vmstat parser
\* a line starting with "procs" or "r", in the iostat parser a section
\* header or column header, in the pidstat parser a line containing both
\* "PID" and "CPU" is skipped, and the data lines after it are still parsed.
C27_RepeatedHeaderSkipped ==
    [][/\ RepeatedHeader =>
            /\ pc' = pc /\ i' = i + 1
            /\ UNCHANGED <<header_found, column_header_found, current_sample, samples>>
       /\ (VmstatReads /\ header_found /\ i > 1
           /\ StartsAsVmstatHeader(Strip(lines[i - 1])) /\ ~StartsAsVmstatHeader(CurLine)
           /\ Len(CurParts) >= 17 /\ VmstatSample(CurParts).raised = "none") =>
              samples' = Append(samples, VmstatSample(CurParts).val)
       /\ (IostatReadsRow /\ i > 1
           /\ (IsIostatSectionLine(Strip(lines[i - 1]))
               \/ IsIostatColumnLine(Strip(lines[i - 1])))
           /\ Len(CurParts) >= 6 /\ IostatSample(CurParts).raised = "none") =>
              samples' = Append(samples, IostatSample(CurParts).val)
       /\ (PidstatReadsRow /\ i > 1 /\ IsPidstatHeaderLine(Strip(lines[i - 1]))
           /\ Len(CurParts) >= 8 /\ PidstatSample(CurParts).raised = "none") =>
              samples' = Append(samples, PidstatSample(CurParts).val)]_vars

\* C27 witness: the iostat parser has skipped a section header repeated
\* after its two headers and has parsed the data row behind it
C27_Witness ==
    /\ pc = "iostat_loop" /\ i = 5
    /\ lines = <<IostatHeader, IostatColumns, IostatHeader, IostatRow>>
    /\ header_found /\ column_header_found
    /\ Len(samples) = 1 /\ samples[1].cpu_us_pct = Fin(14 * Scale)

\* a loop is about to read a line or a row and stays in its parser
ReadsOn ==
    /\ pc' = pc
    /\ \/ pc \in {"vmstat_loop", "top_loop", "iostat_loop", "pidstat_loop"}
          /\ i <= Len(lines)
       \/ CsvReads

\* after holds the samples of before unchanged and in place, and at most one
\* more behind them
GrowsByAtMostOne(before, after) ==
    \/ after = before
    \/ Len(after) = Len(before) + 1 /\ SubSeq(after, 1, Len(before)) = before

\* line k of the file is read in READING_DATA and is no header line
VmstatDataLine(k) ==
    /\ ~StartsAsVmstatHeader(Strip(lines[k]))
    /\ \E j \in 1..(k - 1) : StartsAsVmstatHeader(Strip(lines[j]))

IostatDataLine(k) ==
    /\ ~IsIostatSectionLine(Strip(lines[k])) /\ ~IsIostatColumnLine(Strip(lines[k]))
    /\ \E j \in 1..(k - 1) :
           /\ IsIostatColumnLine(Strip(lines[j]))
           /\ \E h \in 1..(j - 1) : IsIostatSectionLine(Strip(lines[h]))

PidstatDataLine(k) ==
    /\ ~IsPidstatHeaderLine(Strip(lines[k]))
    /\ \E j \in 1..(k - 1) : IsPidstatHeaderLine(Strip(lines[j]))

\* the number of lines before line k that satisfy P
CountBefore(k, P(_)) == Cardinality({j \in 1..(k - 1) : P(j)})

TopCpuLineAt(k) == SetsCpu(Strip(lines[k]))

\* the samples of the macOS top parser, the one being accumulated included
TopSampleCount == Len(samples) + (IF HasKey(current_sample, "cpu_us_pct") THEN 1 ELSE 0)

\* C28: every parser emits its samples in input order and at most one per
\* line or row: a line adds at most one sample, behind those emitted so
\* far, which it leaves as they are; the number of samples never exceeds the
\* number of non-header lines read in READING_DATA (vmstat, iostat, pidstat,
\* ps CSV) and for macOS top the number of "CPU usage:" lines that matched;
\* the sequence returned is the sequence emitted.
C28_SamplesInInputOrder ==
    [][/\ ReadsOn => GrowsByAtMostOne(samples, samples')
       /\ pc = "vmstat_loop" => Len(samples) <= CountBefore(i, VmstatDataLine)
       /\ pc = "iostat_loop" => Len(samples) <= CountBefore(i, IostatDataLine)
       /\ pc = "pidstat_loop" => Len(samples) <= CountBefore(i, PidstatDataLine)
       /\ pc = "csv_loop" => Len(samples) <= i - 1
       /\ pc = "top_loop" => TopSampleCount <= CountBefore(i, TopCpuLineAt)
       /\ (pc \in Loops /\ pc' = "returned") =>
              /\ GrowsByAtMostOne(samples, result')
              /\ pc # "top_loop" => result' = samples
              /\ Len(result') <= Len(lines)]_vars

\* C28 witness: two data lines have given two samples in the order of the
\* lines
C28_Witness ==
    /\ entry = "parse_vmstat_log" /\ pc = "returned" /\ calls = <<>>
    /\ lines = <<VmstatHeader2, VmstatRow17, VmstatRow18>>
    /\ Len(result) = 2
    /\ result[1].memory_free_kb = 102400 /\ result[2].memory_free_kb = 2048

\* the monitoring file can be opened and holds a JSON document
MonitoringLoads ==
    /\ args.monitoring_json.exists
    /\ JsonLoad(FileText(args.monitoring_json.lines)).raised = "none"

\* the places of a text parser
ParserPlaces == Entries \cup Loops \cup {"returned", "raised"}

\* C29: a pre-parsed monitoring JSON given to main takes exclusive
\* precedence: the vmstat and pidstat file arguments are never sniffed or
\* parsed, both arrays come from the JSON document alone, and when loading
\* it fails both arrays stay empty (no fallback to the raw logs) and no
\* summary is produced.
C29_MonitoringJsonPrecedence ==
    [][args.monitoring_json.given =>
          /\ pc \notin ParserPlaces /\ pc' \notin ParserPlaces
          /\ invoked' = <<>>
          /\ UNCHANGED <<entry, exists, lines, args>>
          /\ pc = "main" =>
                 IF MonitoringLoads
                 THEN /\ pc' = "slot_json"
                      /\ args.monitoring_json.lines = <<JsonVmstatDoc>> =>
                             /\ result' = JsonVmstatSamples
                             /\ main_result' = [pidstat |-> <<>>]
                      /\ args.monitoring_json.lines = <<JsonPidstatDoc>> =>
                             /\ result' = <<>>
                             /\ main_result' = [pidstat |-> JsonPidstatSamples]
                 ELSE /\ pc' = "slot_failed"
                      /\ result' = <<>> /\ main_result' = [pidstat |-> <<>>]
          /\ (~MonitoringLoads /\ pc' \in {"main_done", "main_crashed"}) =>
                 /\ pc' = "main_done"
                 /\ result' = <<>> /\ main_result' = [pidstat |-> <<>>]
                 /\ summary' = NoSummary]_vars

\* C29 witness: main is over with an unreadable monitoring file and with
\* raw logs that hold a vmstat row and a pidstat row; both arrays are empty
\* and there is no summary
C29_Witness ==
    /\ pc = "main_done"
    /\ args.monitoring_json = FileArg(TRUE, <<JsonNotJson>>)
    /\ lines = <<VmstatHeader2, VmstatRow17>>
    /\ args.pidstat = FileArg(TRUE, <<PidstatHeader, PidstatRowFoo>>)
    /\ result = <<>> /\ main_result = [pidstat |-> <<>>] /\ summary = NoSummary
    /\ invoked = <<>>

\* a slot of main is over: its array is set or left empty
SlotEnded == pc \in {"returned", "raised", "slot_json", "slot_failed"}

\* the file of the slot cannot be loaded: open() or json.load raises
SlotLoadFails ==
    \/ ~exists
    \/ /\ FirstChar(FileText(lines)) = "{"
       /\ JsonLoad(FileText(lines)).raised # "none"

\* nothing of an earlier call is left in the locals of the parsers
LocalsFresh ==
    /\ i = 1 /\ header_found = FALSE /\ column_header_found = FALSE
    /\ current_sample = EmptyDict /\ samples = <<>> /\ col = NoColumns
    /\ result = <<>> /\ exc = "none" /\ invoked = <<>>

\* C30: the two slots of main are isolated. A failure while loading or
\* parsing the file of a slot leaves the slot's array empty; main always
\* goes on from the vmstat slot to the pidstat slot, which starts from the
\* pidstat file alone with nothing left of the vmstat slot; nothing done in
\* the pidstat slot changes the vmstat array; and an array is either empty
\* or what one loader returned after reading its whole file.
C30_SlotsIsolated ==
    [][~args.monitoring_json.given /\ entry \in {"parse_vmstat_log", "parse_pidstat_log"} =>
          /\ (pc = "main" /\ SlotLoadFails) =>
                 (pc' = "slot_failed" /\ result' = <<>>)
          /\ pc' \in {"raised", "slot_failed"} => SlotSamples' = <<>>
          /\ (pc \in Loops /\ pc' = "returned") =>
                 /\ i > Len(lines)
                 /\ result' = IF pc = "top_loop"
                               THEN TopAtEOF(current_sample, samples)
                               ELSE samples
                 /\ invoked # <<>> /\ invoked' = invoked
          /\ (pc = "main" /\ pc' = "slot_json") =>
                 (result' = JsonGet(JsonLoad(FileText(lines)).val, SlotKey(entry))
                  /\ invoked' = <<>>)
          /\ (pc' \in {"main_done", "main_crashed"}) =>
                 (SlotEnded /\ ~args.pidstat.given)
          /\ (entry = "parse_vmstat_log" /\ entry' = "parse_pidstat_log") =>
                 /\ SlotEnded
                 /\ main_result' = [vmstat |-> IF pc \in {"returned", "slot_json"}
                                                THEN result ELSE <<>>]
                 /\ pc' = "main"
                 /\ exists' = args.pidstat.exists /\ lines' = args.pidstat.lines
                 /\ process_name' = process_name
                 /\ LocalsFresh'
          /\ (entry = "parse_pidstat_log" /\ pc' \notin {"main_done", "main_crashed"}) =>
                 main_result' = main_result
          /\ (entry = "parse_pidstat_log" /\ pc' = "main_done") =>
                 main_result'.vmstat = main_result.vmstat]_vars

\* C30 witness: main is over after a vmstat log that gave a sample and a
\* pidstat file that is no JSON document; the vmstat array and its summary
\* are there and the pidstat array is empty
C30_Witness ==
    /\ pc = "main_done"
    /\ ~args.monitoring_json.given
    /\ entry = "parse_pidstat_log" /\ lines = <<JsonNotJson>>
    /\ result = <<>> /\ summary = NoSummary
    /\ Len(main_result.vmstat) = 1
    /\ "vmstat_summary" \in DOMAIN main_result

\* the other way round: the vmstat file is no JSON document, the pidstat
\* log gave a sample
C30_WitnessPidstat ==
    /\ pc = "main_done"
    /\ ~args.monitoring_json.given
    /\ entry = "parse_pidstat_log" /\ lines = <<PidstatHeader, PidstatRowFoo>>
    /\ process_name = "Foo"
    /\ Len(result) = 1 /\ summary # NoSummary
    /\ main_result = [vmstat |-> <<>>]

====
